---- MODULE Spec2Model ----
(***************************************************************************)
(* Decision engines of the pharmaceutical line backend                     *)
(* (src/src/backend-python/agents): maintenance, scheduling, yield and     *)
(* vision.  Every operation is a pure function of its request, so the      *)
(* state is one call: the operation called (op), its request (inp), the    *)
(* position of the call (pc) and, once the handler has run, its result     *)
(* (out).  Init draws the request from bounded sets; one action per        *)
(* operation applies the handler.                                          *)
(*                                                                         *)
(* Numbers.  The code computes in binary floating point; the model         *)
(* computes the same expressions exactly, on scaled integers or on         *)
(* fractions <<numerator, denominator>> with a positive denominator.       *)
(* Units are stated with each definition.  Where the code rounds a float   *)
(* whose exact value is a half, the float may lie on either side of the    *)
(* half and the model allows both neighbours (RoundFloat).  The wall clock *)
(* read by datetime.now() is the request field `now`; times are whole      *)
(* hours.                                                                  *)
(***************************************************************************)
EXTENDS Integers, Sequences, FiniteSets, TLC

VARIABLES op, inp, out, pc

vars == <<op, inp, out, pc>>

(***************************************************************************)
(* Bounds of the model.                                                    *)
(***************************************************************************)
MaxBatches == 3      \* longest production schedule
MaxTime == 5         \* latest hour a scheduled batch may end
MaxNow == 1          \* latest time of a call: hours, minutes for route_alert
MaxDuration == 1     \* longest maintenance duration asked for, hours
MaxSamples == 2      \* longest sensor window
MaxOrders == 3       \* longest batch queue given to group_batches
MaxGroups == 2       \* most schedule groups in a request
MaxGroupSize == 1    \* most batches in a group of a request
MaxConditions == 3   \* most production conditions in a request
MaxFailures == 2     \* most equipment failures in a request
MaxSignals == 3      \* longest series of press signals
MaxWindow == 3       \* largest drift window asked for
MaxHistory == 2      \* longest list of historical yields
MaxDetections == 4   \* most detections in a metrics analysis
MaxInspections == 3  \* most inspections in a metrics analysis

(***************************************************************************)
(* Python helpers                                                          *)
(***************************************************************************)
\* Optional[...] values: <<>> is None, <<x>> is the value x.
None == <<>>

Some(x) == <<x>>

\* Truth value Python gives an optional number: None and 0 are both falsy.
Truthy(o) == o # None /\ o[1] # 0

\* `a or b` on an optional number a and a default b.
PyOr(o, default) == IF Truthy(o) THEN o[1] ELSE default

Abs(x) == IF x < 0 THEN -x ELSE x

Min(a, b) == IF a <= b THEN a ELSE b

Max(a, b) == IF a >= b THEN a ELSE b

\* round(num / den) for den > 0: Python 3 rounds to the nearest integer and a
\* tie to the even neighbour.
PyRound(num, den) ==
  LET q == num \div den
      r == num % den
  IN  IF 2 * r < den THEN q
      ELSE IF 2 * r > den THEN q + 1
      ELSE IF q % 2 = 0 THEN q ELSE q + 1

\* Sequences over S of length at most n.
SeqUpTo(S, n) == UNION {[1..k -> S] : k \in 0..n}

(***************************************************************************)
(* Health/Maintenance engine: agents/maintenance_agent.py                  *)
(* Vibration is in tenths of mm/s, temperature in degrees C, motor load    *)
(* in percent, health in percent, RUL and times in hours.                  *)
(***************************************************************************)
CRITICAL_HEALTH_THRESHOLD == 50

WARNING_HEALTH_THRESHOLD == 70

WARNING_RUL_THRESHOLD == 500

VIBRATION_THRESHOLD == 50

TEMPERATURE_THRESHOLD == 65

MOTOR_LOAD_THRESHOLD == 90

GENERAL_MAINTENANCE_DURATION == 2

SPARE_REPLACEMENT_DURATION == 4

\* ---- find_idle_window ---------------------------------------------------
RECURSIVE InsertByStart(_, _)
\* s is sorted by start_time; b goes after every batch starting no later
\* than it, which is where a stable sort leaves a later element.
InsertByStart(b, s) ==
  IF s = <<>> THEN <<b>>
  ELSE IF Head(s).start_time <= b.start_time
       THEN <<Head(s)>> \o InsertByStart(b, Tail(s))
       ELSE <<b>> \o s

RECURSIVE SortByStart(_)
\* sorted(s, key=lambda b: b.start_time): stable, ascending.
SortByStart(s) ==
  IF s = <<>> THEN <<>>
  ELSE InsertByStart(s[Len(s)], SortByStart(SubSeq(s, 1, Len(s) - 1)))

\* [b for b in schedule if b.end_time > now], sorted by start_time.
FutureSchedule(schedule, now) ==
  SortByStart(SelectSeq(schedule, LAMBDA b : b.end_time > now))

Window(start, duration) == [start |-> start, end |-> start + duration]

\* The scan of consecutive future batches: the first index whose gap to the
\* next batch is long enough, 0 when the loop ends without returning.
FirstGapLatest(future, duration) ==
  LET fits == {i \in 1..(Len(future) - 1) :
                 future[i + 1].start_time - future[i].end_time >= duration}
  IN  IF fits = {} THEN 0 ELSE CHOOSE i \in fits : \A j \in fits : i >= j

FirstGap(future, duration) ==
  LET fits == {i \in 1..(Len(future) - 1) :
                 future[i + 1].start_time - future[i].end_time >= duration}
  IN  IF fits = {} THEN 0 ELSE CHOOSE i \in fits : \A j \in fits : i <= j

find_idle_window(schedule, duration, now) ==
  LET future == FutureSchedule(schedule, now)
      gap == FirstGap(future, duration)
  IN  IF future = <<>> THEN Window(now, duration)
      ELSE IF future[1].start_time - now >= duration THEN Window(now, duration)
      ELSE IF gap # 0 THEN Window(future[gap].end_time, duration)
      ELSE Window(future[Len(future)].end_time, duration)

\* ---- detect_anomalies ---------------------------------------------------
\* VibrationSeverity with the labels of the two upper tiers exchanged.
VibrationSeverityTiersSwapped(v, t) ==
  IF 10 * v > 15 * t THEN "medium"
  ELSE IF 10 * v > 12 * t THEN "high"
  ELSE "low"

\* Severity of a vibration reading v already above the threshold t.
VibrationSeverity(v, t) ==
  IF 10 * v > 15 * t THEN "high"
  ELSE IF 10 * v > 12 * t THEN "medium"
  ELSE "low"

\* TemperatureSeverity whose tiers begin at the offsets 15 and 5 themselves.
TemperatureSeverityInclusive(temp, t) ==
  IF temp >= t + 15 THEN "high"
  ELSE IF temp >= t + 5 THEN "medium"
  ELSE "low"

\* Severity of a temperature reading above the threshold t.
TemperatureSeverity(temp, t) ==
  IF temp > t + 15 THEN "high"
  ELSE IF temp > t + 5 THEN "medium"
  ELSE "low"

\* Severity of a motor load above the threshold.
MotorLoadSeverity(load) == IF load > 95 THEN "high" ELSE "medium"

Anomaly(data, source, severity) ==
  [timestamp |-> data.timestamp, source |-> source, severity |-> severity]

\* The thresholds dict: a value the caller left out, or gave as 0, falls back
\* to the configured default.
Thresholds(vibration_threshold, temperature_threshold, motor_load_threshold) ==
  [vibration |-> PyOr(vibration_threshold, VIBRATION_THRESHOLD),
   temperature |-> PyOr(temperature_threshold, TEMPERATURE_THRESHOLD),
   motor_load |-> PyOr(motor_load_threshold, MOTOR_LOAD_THRESHOLD)]

\* The anomalies one sample appends: vibration, then temperature, then load.
SampleAnomalies(data, thresholds) ==
  (IF data.vibration > thresholds.vibration
   THEN <<Anomaly(data, "Vibration Sensor",
                  VibrationSeverity(data.vibration, thresholds.vibration))>>
   ELSE <<>>)
  \o
  (IF data.temperature > thresholds.temperature
   THEN <<Anomaly(data, "Temperature Sensor",
                  TemperatureSeverity(data.temperature, thresholds.temperature))>>
   ELSE <<>>)
  \o
  (IF data.motor_load > thresholds.motor_load
   THEN <<Anomaly(data, "Motor Load Sensor", MotorLoadSeverity(data.motor_load))>>
   ELSE <<>>)

RECURSIVE AnomaliesOf(_, _)
AnomaliesOf(sensor_data, thresholds) ==
  IF sensor_data = <<>> THEN <<>>
  ELSE SampleAnomalies(Head(sensor_data), thresholds)
       \o AnomaliesOf(Tail(sensor_data), thresholds)

detect_anomalies(sensor_data, vibration_threshold, temperature_threshold, motor_load_threshold) ==
  AnomaliesOf(sensor_data,
              Thresholds(vibration_threshold, temperature_threshold,
                         motor_load_threshold))

\* ---- analyze_component --------------------------------------------------
\* RequiresMaintenance that looks at the health alone.
RequiresMaintenanceHealthOnly(component) ==
  component.health < WARNING_HEALTH_THRESHOLD

RequiresMaintenance(component) ==
  \/ component.health < WARNING_HEALTH_THRESHOLD
  \/ component.rul < WARNING_RUL_THRESHOLD
  \/ component.trend = "critical"

\* maintenance_type; the string "None" stands for Python's None.
MaintenanceType(component) ==
  IF ~RequiresMaintenance(component) THEN "None"
  ELSE IF component.health < CRITICAL_HEALTH_THRESHOLD \/ component.trend = "critical"
       THEN "spare_replacement"
       ELSE "general"

\* Priority that rates general maintenance under 60 % health critical.
PriorityGeneralEscalated(component) ==
  IF ~RequiresMaintenance(component) THEN "low"
  ELSE IF component.health < CRITICAL_HEALTH_THRESHOLD \/ component.trend = "critical"
       THEN (IF component.health < 30 THEN "critical" ELSE "high")
       ELSE (IF component.health < 60 THEN "critical" ELSE "medium")

Priority(component) ==
  IF ~RequiresMaintenance(component) THEN "low"
  ELSE IF component.health < CRITICAL_HEALTH_THRESHOLD \/ component.trend = "critical"
       THEN (IF component.health < 30 THEN "critical" ELSE "high")
       ELSE (IF component.health < 60 THEN "high" ELSE "medium")

EstimatedDuration(maintenance_type) ==
  IF maintenance_type = "spare_replacement"
  THEN SPARE_REPLACEMENT_DURATION
  ELSE GENERAL_MAINTENANCE_DURATION

analyze_component(component, schedule, now) ==
  LET maintenance_type == MaintenanceType(component)
      estimated_duration == EstimatedDuration(maintenance_type)
      idle_window == find_idle_window(schedule, estimated_duration, now)
  IN  [requires_maintenance |-> RequiresMaintenance(component),
       maintenance_type |-> maintenance_type,
       suggested_time |-> idle_window.start,
       machine_idle_window |-> idle_window,
       priority |-> Priority(component),
       estimated_duration |-> estimated_duration]

\* ---- predict_rul --------------------------------------------------------
\* The three multipliers, in tenths.
VibrationFactor(input_data) ==
  IF input_data.vibration_level > VIBRATION_THRESHOLD THEN 15 ELSE 10

TemperatureFactor(input_data) ==
  IF input_data.temperature_delta > 10 THEN 13 ELSE 10

LoadFactor(input_data) ==
  IF input_data.motor_load_avg > MOTOR_LOAD_THRESHOLD THEN 14 ELSE 10

\* adjusted_degradation_rate in millionths per hour:
\* 0.001 * (f1/10) * (f2/10) * (f3/10) = f1*f2*f3 / 10^6.
DegradationRate(input_data) ==
  VibrationFactor(input_data) * TemperatureFactor(input_data) * LoadFactor(input_data)

\* RulConfidence that also takes 0.1*|load factor - 1| off.
RulConfidenceWithLoad(input_data) ==
  Max(600, Min(950, 850 - 10 * Abs(VibrationFactor(input_data) - 10)
                        - 10 * Abs(TemperatureFactor(input_data) - 10)
                        - 10 * Abs(LoadFactor(input_data) - 10)))

\* confidence in thousandths: 0.85 - 0.1*|f1 - 1| - 0.1*|f2 - 1|, clamped.
RulConfidence(input_data) ==
  Max(600, Min(950, 850 - 10 * Abs(VibrationFactor(input_data) - 10)
                        - 10 * Abs(TemperatureFactor(input_data) - 10)))

\* failure_probability as a fraction: 1 - predicted_rul/1000 with
\* predicted_rul = health * 10^6 / rate, clamped into [0.01, 0.99].
FailureProbability(input_data) ==
  LET rate == DegradationRate(input_data)
      num == rate - 1000 * input_data.current_health
  IN  IF 100 * num > 99 * rate THEN <<99, 100>>
      ELSE IF 100 * num < rate THEN <<1, 100>>
      ELSE <<num, rate>>

\* predicted_rul is reported rounded; predicted_failure_date, now plus the
\* unrounded predicted_rul, is a fraction of hours.
predict_rul(input_data, now) ==
  [predicted_rul |-> PyRound(input_data.current_health * 1000000,
                             DegradationRate(input_data)),
   confidence_level |-> RulConfidence(input_data),
   degradation_rate |-> DegradationRate(input_data),
   failure_probability |-> FailureProbability(input_data),
   predicted_failure_date |->
     <<now * DegradationRate(input_data) + input_data.current_health * 1000000,
       DegradationRate(input_data)>>]

(***************************************************************************)
(* Scheduling engine: agents/scheduling_agent.py                           *)
(* Cleaning times and savings are in minutes.                              *)
(***************************************************************************)
NO_CLEANING_TIME == 0

PARTIAL_CLEANING_TIME == 15

FULL_CLEANING_TIME == 45

SAME_DRUG_SAME_DENSITY_SAVINGS == 15

SAME_DRUG_DIFF_DENSITY_SAVINGS == 8

DIFF_DRUG_DIFF_DENSITY_SAVINGS == 5

MIN_OPERATOR_SKILL_LEVEL == 2

TARGET_EFFICIENCY_GAIN == 40

MIN_BATCH_GROUP_SIZE == 2

\* Python compares the drug and density strings character by character;
\* these give the rank of each string of the model in that order.
DrugOrder == [Amoxicillin |-> 1, Ibuprofen |-> 2, Metformin |-> 3]

DensityOrder == [high |-> 1, low |-> 2, medium |-> 3]

\* (a.drug, a.density) <= (b.drug, b.density)
DrugDensityLeq(a, b) ==
  \/ DrugOrder[a.drug] < DrugOrder[b.drug]
  \/ /\ a.drug = b.drug
     /\ DensityOrder[a.density] <= DensityOrder[b.density]

RECURSIVE InsertByDrugDensity(_, _)
InsertByDrugDensity(b, s) ==
  IF s = <<>> THEN <<b>>
  ELSE IF DrugDensityLeq(Head(s), b)
       THEN <<Head(s)>> \o InsertByDrugDensity(b, Tail(s))
       ELSE <<b>> \o s

RECURSIVE SortByDrugDensity(_)
\* sorted(batches, key=lambda b: (b.drug, b.density)): stable, ascending.
SortByDrugDensity(s) ==
  IF s = <<>> THEN <<>>
  ELSE InsertByDrugDensity(s[Len(s)], SortByDrugDensity(SubSeq(s, 1, Len(s) - 1)))

\* ---- group_by_drug_and_density ------------------------------------------
\* The test that appends batch_j to the group opened by batch_i.
Joins(batch_i, batch_j, same_drug, same_density) ==
  LET drug_match == batch_i.drug = batch_j.drug
      density_match == batch_i.density = batch_j.density
  IN  \/ same_drug /\ same_density /\ drug_match /\ density_match
      \/ same_drug /\ ~same_density /\ drug_match /\ ~density_match
      \/ ~same_drug /\ ~same_density /\ ~drug_match

RECURSIVE GroupOfDropsJoined(_, _, _, _, _, _)
\* GroupOf with the append left out: a batch that joins is marked used and
\* never put in the group.
GroupOfDropsJoined(batches, batch_i, j, same_drug, same_density, acc) ==
  IF j > Len(batches) THEN acc
  ELSE IF batches[j].id \in acc[2]
       THEN GroupOfDropsJoined(batches, batch_i, j + 1, same_drug, same_density, acc)
       ELSE IF Joins(batch_i, batches[j], same_drug, same_density)
            THEN GroupOfDropsJoined(batches, batch_i, j + 1, same_drug, same_density,
                                    <<acc[1], acc[2] \cup {batches[j].id}>>)
            ELSE GroupOfDropsJoined(batches, batch_i, j + 1, same_drug, same_density,
                                    acc)

RECURSIVE GroupOf(_, _, _, _, _, _)
\* The inner loop from index j on: <<group, used>> when it ends.
GroupOf(batches, batch_i, j, same_drug, same_density, acc) ==
  IF j > Len(batches) THEN acc
  ELSE IF batches[j].id \in acc[2]
       THEN GroupOf(batches, batch_i, j + 1, same_drug, same_density, acc)
       ELSE IF Joins(batch_i, batches[j], same_drug, same_density)
            THEN GroupOf(batches, batch_i, j + 1, same_drug, same_density,
                         <<Append(acc[1], batches[j]), acc[2] \cup {batches[j].id}>>)
            ELSE GroupOf(batches, batch_i, j + 1, same_drug, same_density, acc)

RECURSIVE GroupsFromPairsOnly(_, _, _, _, _)
\* GroupsFrom that appends a group to the result only when it has at least
\* two batches.
GroupsFromPairsOnly(batches, i, same_drug, same_density, acc) ==
  IF i > Len(batches) THEN acc[1]
  ELSE IF batches[i].id \in acc[2]
       THEN GroupsFromPairsOnly(batches, i + 1, same_drug, same_density, acc)
       ELSE LET g == GroupOf(batches, batches[i], i + 1, same_drug, same_density,
                             <<(<<batches[i]>>), acc[2] \cup {batches[i].id}>>)
            IN  GroupsFromPairsOnly(batches, i + 1, same_drug, same_density,
                                    <<IF Len(g[1]) >= 2 THEN acc[1] \o g[1] ELSE acc[1],
                                      g[2]>>)

RECURSIVE GroupsFrom(_, _, _, _, _)
\* The outer loop from index i on; acc is <<result, used>>.  Every group has
\* at least its opening batch, so every group is appended to the result.
GroupsFrom(batches, i, same_drug, same_density, acc) ==
  IF i > Len(batches) THEN acc[1]
  ELSE IF batches[i].id \in acc[2]
       THEN GroupsFrom(batches, i + 1, same_drug, same_density, acc)
       ELSE LET g == GroupOf(batches, batches[i], i + 1, same_drug, same_density,
                             <<(<<batches[i]>>), acc[2] \cup {batches[i].id}>>)
            IN  GroupsFrom(batches, i + 1, same_drug, same_density,
                           <<acc[1] \o g[1], g[2]>>)

group_by_drug_and_density(batches, same_drug, same_density) ==
  IF batches = <<>> THEN <<>>
  ELSE GroupsFrom(batches, 1, same_drug, same_density, <<(<<>>), {}>>)

\* ---- group_batches ------------------------------------------------------
ScheduleGroup(type, label, batches, cleaning_required, cleaning_time_minutes, savings, sequence_order, color) ==
  [type |-> type, label |-> label, batches |-> batches,
   cleaning_required |-> cleaning_required,
   cleaning_time_minutes |-> cleaning_time_minutes,
   estimated_savings |-> Len(batches) * savings,
   sequence_order |-> sequence_order, color |-> color]

group_batches(batches) ==
  LET sorted_batches == SortByDrugDensity(batches)
      same_drug_same_density == group_by_drug_and_density(sorted_batches, TRUE, TRUE)
      same_drug_diff_density == group_by_drug_and_density(sorted_batches, TRUE, FALSE)
      diff_drug_diff_density == group_by_drug_and_density(sorted_batches, FALSE, FALSE)
  IN  (IF Len(same_drug_same_density) >= MIN_BATCH_GROUP_SIZE
       THEN <<ScheduleGroup("same-drug-same-density", "Same Drug + Same Density",
                            same_drug_same_density, "none", NO_CLEANING_TIME,
                            SAME_DRUG_SAME_DENSITY_SAVINGS, 1, "emerald")>>
       ELSE <<>>)
      \o
      (IF Len(same_drug_diff_density) >= MIN_BATCH_GROUP_SIZE
       THEN <<ScheduleGroup("same-drug-diff-density", "Same Drug + Different Density",
                            same_drug_diff_density, "partial", PARTIAL_CLEANING_TIME,
                            SAME_DRUG_DIFF_DENSITY_SAVINGS, 2, "amber")>>
       ELSE <<>>)
      \o
      (IF diff_drug_diff_density # <<>>
       THEN <<ScheduleGroup("diff-drug-diff-density",
                            "Different Drug + Different Density",
                            diff_drug_diff_density, "full", FULL_CLEANING_TIME,
                            DIFF_DRUG_DIFF_DENSITY_SAVINGS, 3, "rose")>>
       ELSE <<>>)

\* ---- validate_constraints -----------------------------------------------
\* `part in name` for the condition names of the model.
NameContains(name, part) ==
  \/ part = "Operator" /\ name = "Operator Skill"
  \/ part = "Machine Wear" /\ name = "Machine Wear"
  \/ part = "Room Clearance" /\ name = "Room Clearance"
  \/ part = "QA" /\ name = "QA Release"

\* next((c for c in conditions if p1 in c.name or p2 in c.name ...), None)
\* for the parts p1, p2, ... given, as an optional.
FirstCondition(conditions, parts) ==
  LET hits == SelectSeq(conditions,
                        LAMBDA c : \E part \in parts : NameContains(c.name, part))
  IN  IF hits = <<>> THEN None ELSE Some(Head(hits))

validate_constraints(constraints, conditions) ==
  LET operator_condition == FirstCondition(conditions, {"Operator"})
      machine_wear_condition == FirstCondition(conditions, {"Machine Wear"})
      room_condition == FirstCondition(conditions, {"Room Clearance"})
  IN  (IF /\ Truthy(constraints.min_operator_skill)
          /\ constraints.min_operator_skill[1] > MIN_OPERATOR_SKILL_LEVEL
          /\ operator_condition # None
          /\ operator_condition[1].status # "ready"
       THEN <<"Insufficient operator skill level available">>
       ELSE <<>>)
      \o
      (IF /\ Truthy(constraints.max_machine_wear)
          /\ machine_wear_condition # None
          /\ machine_wear_condition[1].status = "warning"
       THEN <<"Machine wear approaching maximum threshold">>
       ELSE <<>>)
      \o
      (IF room_condition # None /\ room_condition[1].status # "ready"
       THEN <<"Room clearance not yet approved">>
       ELSE <<>>)

\* ---- calculate_schedule_confidence --------------------------------------
\* Confidence in hundredths: 1.0 - 0.25 b - 0.10 w - 0.15 v is a whole number
\* of hundredths, so round(., 2) leaves it as it is.
\* calculate_schedule_confidence without the max(0, min(1, .)).
ScheduleConfidenceUnclamped(blockers, warnings, violations) ==
  100 - 25 * Len(blockers) - 10 * Len(warnings) - 15 * Len(violations)

calculate_schedule_confidence(blockers, warnings, violations) ==
  Max(0, Min(100, 100 - 25 * Len(blockers) - 10 * Len(warnings)
                      - 15 * Len(violations)))

\* ---- optimize_schedule --------------------------------------------------
RECURSIVE Sum(_)
\* sum(s) of a sequence of numbers
Sum(s) == IF s = <<>> THEN 0 ELSE Head(s) + Sum(Tail(s))

TotalBatches(groups) == Sum([i \in DOMAIN groups |-> Len(groups[i].batches)])

BaselineCleaningTime(groups) == TotalBatches(groups) * FULL_CLEANING_TIME

OptimizedCleaningTime(groups) ==
  Sum([i \in DOMAIN groups |->
         Len(groups[i].batches) * groups[i].cleaning_time_minutes])

TotalSavingsMinutes(groups) ==
  Sum([i \in DOMAIN groups |-> groups[i].estimated_savings])

\* EfficiencyGain that truncates (int) where the code rounds.
EfficiencyGainTruncated(groups) ==
  LET baseline == BaselineCleaningTime(groups)
      optimized == OptimizedCleaningTime(groups)
  IN  IF baseline > 0 THEN ((baseline - optimized) * 100) \div baseline ELSE 0

\* round((1 - optimized/baseline) * 100) if baseline > 0 else 0
EfficiencyGain(groups) ==
  LET baseline == BaselineCleaningTime(groups)
      optimized == OptimizedCleaningTime(groups)
  IN  IF baseline > 0 THEN PyRound((baseline - optimized) * 100, baseline) ELSE 0

\* The insights, each named by the head of its message.
generate_optimization_insights(groups, efficiency_gain, blockers) ==
  LET same_drug_groups == SelectSeq(groups, LAMBDA g : g.type = "same-drug-same-density")
      no_clean_groups == SelectSeq(groups, LAMBDA g : g.cleaning_required = "none")
  IN  (IF efficiency_gain >= TARGET_EFFICIENCY_GAIN
       THEN <<"Optimal grouping achieved">>
       ELSE IF efficiency_gain > 0
            THEN <<"Current grouping provides">>
            ELSE <<>>)
      \o
      (IF same_drug_groups # <<>> /\ Len(Head(same_drug_groups).batches) >= 5
       THEN <<"Large same-product run">>
       ELSE <<>>)
      \o
      (IF blockers # <<>> THEN <<"Schedule may be delayed">> ELSE <<>>)
      \o
      (IF no_clean_groups # <<>> THEN <<"batches require no cleaning changeover">> ELSE <<>>)

\* The confidence of optimize_schedule, which reads the conditions and the
\* constraints only.
Confidence(conditions, constraints) ==
  calculate_schedule_confidence(
    SelectSeq(conditions, LAMBDA c : c.status = "blocked"),
    SelectSeq(conditions, LAMBDA c : c.status = "warning"),
    validate_constraints(constraints, conditions))

optimize_schedule(groups, conditions, constraints) ==
  LET blockers == SelectSeq(conditions, LAMBDA c : c.status = "blocked")
      warnings == SelectSeq(conditions, LAMBDA c : c.status = "warning")
      constraint_violations == validate_constraints(constraints, conditions)
      efficiency_gain == EfficiencyGain(groups)
  IN  [groups |-> groups,
       total_batches |-> TotalBatches(groups),
       total_savings_minutes |-> TotalSavingsMinutes(groups),
       efficiency_gain |-> efficiency_gain,
       baseline_cleaning_time |-> BaselineCleaningTime(groups),
       optimized_cleaning_time |-> OptimizedCleaningTime(groups),
       blockers |-> blockers,
       warnings |-> warnings,
       constraint_violations |-> constraint_violations,
       confidence |-> Confidence(conditions, constraints),
       insights |-> generate_optimization_insights(groups, efficiency_gain, blockers),
       is_optimal |-> Len(blockers) = 0 /\ Len(constraint_violations) = 0]

\* ---- validate_schedule --------------------------------------------------
Issue(severity, message) == [severity |-> severity, message |-> message]

\* ScheduleIssues that reports an equipment failure as a warning.
ScheduleIssuesFailuresAsWarnings(groups, conditions, equipment_failures) ==
  LET qa_condition == FirstCondition(conditions, {"Room Clearance", "QA"})
      flagged == SelectSeq(conditions,
                           LAMBDA c : c.status = "blocked" \/ c.status = "warning")
      empty_groups == SelectSeq(groups, LAMBDA g : g.batches = <<>>)
      full_clean_groups == SelectSeq(groups, LAMBDA g : g.cleaning_required = "full")
  IN  [i \in DOMAIN equipment_failures |->
         Issue("warning", <<"offline", equipment_failures[i].processName,
                          equipment_failures[i].lineId>>)]
      \o
      [i \in DOMAIN flagged |->
         Issue(IF flagged[i].status = "blocked" THEN "error" ELSE "warning",
               <<"condition", flagged[i].name>>)]
      \o
      [i \in DOMAIN empty_groups |->
         Issue("warning", <<"Empty batch group", empty_groups[i].label>>)]
      \o
      (IF qa_condition # None /\ qa_condition[1].status # "ready"
       THEN [i \in DOMAIN full_clean_groups |->
               Issue("warning", <<"QA clearance pending", full_clean_groups[i].label>>)]
       ELSE <<>>)

\* The issues of the four loops, in the order the loops run.  A message is
\* named by what it is about.
ScheduleIssues(groups, conditions, equipment_failures) ==
  LET qa_condition == FirstCondition(conditions, {"Room Clearance", "QA"})
      flagged == SelectSeq(conditions,
                           LAMBDA c : c.status = "blocked" \/ c.status = "warning")
      empty_groups == SelectSeq(groups, LAMBDA g : g.batches = <<>>)
      full_clean_groups == SelectSeq(groups, LAMBDA g : g.cleaning_required = "full")
  IN  [i \in DOMAIN equipment_failures |->
         Issue("error", <<"offline", equipment_failures[i].processName,
                          equipment_failures[i].lineId>>)]
      \o
      [i \in DOMAIN flagged |->
         Issue(IF flagged[i].status = "blocked" THEN "error" ELSE "warning",
               <<"condition", flagged[i].name>>)]
      \o
      [i \in DOMAIN empty_groups |->
         Issue("warning", <<"Empty batch group", empty_groups[i].label>>)]
      \o
      (IF qa_condition # None /\ qa_condition[1].status # "ready"
       THEN [i \in DOMAIN full_clean_groups |->
               Issue("warning", <<"QA clearance pending", full_clean_groups[i].label>>)]
       ELSE <<>>)

generate_validation_recommendations(issues, equipment_failures) ==
  LET error_issues == SelectSeq(issues, LAMBDA i : i.severity = "error")
      warning_issues == SelectSeq(issues, LAMBDA i : i.severity = "warning")
  IN  (IF equipment_failures # <<>>
       THEN <<"Continue production using backup equipment",
              "Monitor backup equipment capacity">>
       ELSE <<>>)
      \o
      (IF error_issues # <<>> /\ equipment_failures = <<>>
       THEN <<"Resolve blocking conditions">>
       ELSE <<>>)
      \o
      (IF warning_issues # <<>> THEN <<"Review and address warnings">> ELSE <<>>)
      \o
      (IF issues = <<>> THEN <<"All conditions nominal">> ELSE <<>>)

\* equipment_failures is a list; the None the caller may pass instead is the
\* empty list after `equipment_failures or []`.
validate_schedule(groups, conditions, equipment_failures) ==
  LET issues == ScheduleIssues(groups, conditions, equipment_failures)
      error_count == Len(SelectSeq(issues, LAMBDA i : i.severity = "error"))
      warning_count == Len(SelectSeq(issues, LAMBDA i : i.severity = "warning"))
  IN  [is_valid |-> error_count = 0,
       can_proceed |-> error_count = 0 \/ Len(equipment_failures) > 0,
       issues |-> issues,
       error_count |-> error_count,
       warning_count |-> warning_count,
       recommendations |->
         generate_validation_recommendations(issues, equipment_failures)]

(***************************************************************************)
(* Yield engine: agents/yield_optimization_agent.py                        *)
(* A signal value is a whole number of 1/128 of the parameter's unit, so   *)
(* 512 is 4.0; slopes and percentages are fractions.                       *)
(***************************************************************************)
DRIFT_MAGNITUDE_HIGH == 2

DRIFT_MAGNITUDE_MEDIUM == 1

\* s[-k:] of Python: the last k elements for k > 0 (all of s when it has
\* fewer), all of s for k = 0, and s without its first -k elements for k < 0.
PySuffix(s, k) ==
  LET start == IF k > 0 THEN Max(Len(s) - k, 0) ELSE Min(-k, Len(s))
  IN  SubSeq(s, start + 1, Len(s))

\* The least-squares line through (0, values[1]), (1, values[2]), ...
\* slope is in units per sample: numerator/denominator counts 1/128ths, hence
\* the 128.  percent_change = slope * n / avg_value * 100 with
\* avg_value = sum_y / n.
calculate_trend(values) ==
  LET n == Len(values)
      sum_x == Sum([i \in 1..n |-> i - 1])
      sum_y == Sum(values)
      sum_xy == Sum([i \in 1..n |-> (i - 1) * values[i]])
      sum_x2 == Sum([i \in 1..n |-> (i - 1) * (i - 1)])
      denominator == n * sum_x2 - sum_x * sum_x
      numerator == n * sum_xy - sum_x * sum_y
  IN  IF n < 2 THEN [slope |-> <<0, 1>>, percent_change |-> <<0, 1>>]
      ELSE IF denominator = 0 THEN [slope |-> <<0, 1>>, percent_change |-> <<0, 1>>]
      ELSE [slope |-> <<numerator, 128 * denominator>>,
            percent_change |->
              IF sum_y # 0
              THEN (IF sum_y > 0
                    THEN <<numerator * n * n * 100, denominator * sum_y>>
                    ELSE <<-(numerator * n * n * 100), -(denominator * sum_y)>>)
              ELSE <<0, 1>>]

\* The monitored parameters in the order of the loop, each with the name it
\* has in a detection.
Parameters ==
  <<[key |-> "weight", output |-> "weight"],
    [key |-> "thickness", output |-> "thickness"],
    [key |-> "hardness", output |-> "hardness"],
    [key |-> "feeder_speed", output |-> "feederSpeed"],
    [key |-> "turret_speed", output |-> "turretSpeed"]>>

DriftAction(key, direction) ==
  CASE key = "weight" ->
         IF direction = "decreasing" THEN "Increase feeder speed slightly"
         ELSE "Decrease feeder speed slightly"
    [] key = "thickness" ->
         IF direction = "increasing" THEN "Increase compression force"
         ELSE "Decrease compression force"
    [] key = "hardness" ->
         IF direction = "decreasing" THEN "Increase main compression force"
         ELSE "Decrease main compression force"
    [] key = "feeder_speed" -> "Check hopper level and material flow"
    [] key = "turret_speed" -> "Verify drive belt tension and motor condition"

\* severity of a magnitude given as a fraction
DriftSeverity(magnitude) ==
  IF magnitude[1] > DRIFT_MAGNITUDE_HIGH * magnitude[2] THEN "high"
  ELSE IF magnitude[1] > DRIFT_MAGNITUDE_MEDIUM * magnitude[2] THEN "medium"
  ELSE "low"

\* One pass of the loop: the detection of one parameter, if its slope is
\* beyond 0.01 in absolute value.
ParameterDrift(param, recent_signals) ==
  LET values == [i \in DOMAIN recent_signals |-> recent_signals[i][param.key]]
      trend == calculate_trend(values)
      magnitude == <<Abs(trend.percent_change[1]), trend.percent_change[2]>>
      direction == IF trend.slope[1] > 0 THEN "increasing" ELSE "decreasing"
  IN  IF 100 * Abs(trend.slope[1]) > trend.slope[2]
      THEN <<[parameter |-> param.output,
              direction |-> direction,
              magnitude |-> magnitude,
              severity |-> DriftSeverity(magnitude),
              recommended_action |-> DriftAction(param.key, direction)]>>
      ELSE <<>>

detect_drift(signals, window_size) ==
  IF Len(signals) < window_size THEN <<>>
  ELSE LET recent_signals == PySuffix(signals, window_size)
       IN  ParameterDrift(Parameters[1], recent_signals)
           \o ParameterDrift(Parameters[2], recent_signals)
           \o ParameterDrift(Parameters[3], recent_signals)
           \o ParameterDrift(Parameters[4], recent_signals)
           \o ParameterDrift(Parameters[5], recent_signals)

\* ---- generate_recommendations -------------------------------------------
\* Weights, hardness, speeds, forces, %RSD and reject rates are in tenths
\* of their unit here; expected improvements in hundredths.
TARGET_RSD == 15

TARGET_REJECT_RATE == 15

DEFAULT_SOP_LIMITS ==
  [feeder_speed |-> [min |-> 200, max |-> 350, unit |-> "rpm"],
   turret_speed |-> [min |-> 400, max |-> 550, unit |-> "rpm"],
   pre_compression_force |-> [min |-> 20, max |-> 50, unit |-> "kN"],
   main_compression_force |-> [min |-> 120, max |-> 200, unit |-> "kN"]]

DEFAULT_SPECS ==
  [weight |-> [target |-> 5000, tolerance |-> 50],
   hardness |-> [target |-> 120]]

\* NewValue that does not hold the value under the upper limit.
NewValueNoUpperLimit(limits, current, adjustment) ==
  Max(limits.min, current + adjustment)

\* new_value: the adjusted value held within the limits, the lower limit
\* applied last.
NewValue(limits, current, adjustment) ==
  Max(limits.min, Min(limits.max, current + adjustment))

\* The recommendation one check appends, if the new value is a change.
Recommendation(parameter, limits, current, adjustment, improvement, reasoning) ==
  LET new_value == NewValue(limits, current, adjustment)
  IN  IF new_value # current
      THEN <<[parameter |-> parameter,
              current_value |-> current,
              recommended_value |-> new_value,
              unit |-> limits.unit,
              adjustment |-> adjustment,
              expected_improvement |-> improvement,
              sop_min |-> limits.min,
              sop_max |-> limits.max,
              risk_level |-> "low",
              reasoning |-> reasoning]>>
      ELSE <<>>

\* sop_limits and specs are Optional: None stands for the defaults.
generate_recommendations(signals, profile, sop_limits_opt, specs_opt) ==
  LET sop_limits == IF sop_limits_opt = None THEN DEFAULT_SOP_LIMITS
                    ELSE sop_limits_opt[1]
      specs == IF specs_opt = None THEN DEFAULT_SPECS ELSE specs_opt[1]
      weight_deviation == signals.weight - specs.weight.target
      hardness_deviation == signals.hardness - specs.hardness.target
  IN  (IF 2 * Abs(weight_deviation) > specs.weight.tolerance
       THEN Recommendation("Feeder Speed", sop_limits.feeder_speed,
                           signals.feeder_speed,
                           IF weight_deviation < 0 THEN 3 ELSE -3, 15,
                           IF weight_deviation < 0
                           THEN "Slight increase to compensate for weight decrease"
                           ELSE "Slight decrease to compensate for weight increase")
       ELSE <<>>)
      \o
      (IF Abs(hardness_deviation) > 10
       THEN Recommendation("Main Compression Force",
                           sop_limits.main_compression_force,
                           signals.main_compression_force,
                           IF hardness_deviation < 0 THEN 5 ELSE -5, 22,
                           IF hardness_deviation < 0
                           THEN "Increase hardness to target center"
                           ELSE "Decrease compression to avoid over-hardness")
       ELSE <<>>)
      \o
      (IF profile.weight_rsd > TARGET_RSD
       THEN Recommendation("Turret Speed", sop_limits.turret_speed,
                           signals.turret_speed, -5, 18,
                           "Minor reduction to improve fill uniformity")
       ELSE <<>>)
      \o
      (IF profile.reject_rate > TARGET_REJECT_RATE
       THEN Recommendation("Pre-Compression Force",
                           sop_limits.pre_compression_force,
                           signals.pre_compression_force, 3, 12,
                           "Better de-aeration reduces capping and lamination")
       ELSE <<>>)

\* ---- validate_recommendation ---------------------------------------------
\* The limits validate_recommendation looks a parameter name up in.
ParameterLimits(sop_limits) ==
  [p \in {"Feeder Speed", "Turret Speed", "Pre-Compression Force",
          "Main Compression Force"} |->
     CASE p = "Feeder Speed" -> sop_limits.feeder_speed
       [] p = "Turret Speed" -> sop_limits.turret_speed
       [] p = "Pre-Compression Force" -> sop_limits.pre_compression_force
       [] p = "Main Compression Force" -> sop_limits.main_compression_force]

\* validate_recommendation that does not hold the value under the upper limit.
ValidateLowerLimitOnly(recommendation, sop_limits_opt) ==
  LET sop_limits == IF sop_limits_opt = None THEN DEFAULT_SOP_LIMITS
                    ELSE sop_limits_opt[1]
      parameter_limits == ParameterLimits(sop_limits)
  IN  IF recommendation.parameter \notin DOMAIN parameter_limits
      THEN TRUE
      ELSE parameter_limits[recommendation.parameter].min
             <= recommendation.recommended_value

\* A name without limits validates; the limits of the model are never empty.
validate_recommendation(recommendation, sop_limits_opt) ==
  LET sop_limits == IF sop_limits_opt = None THEN DEFAULT_SOP_LIMITS
                    ELSE sop_limits_opt[1]
      parameter_limits == ParameterLimits(sop_limits)
  IN  IF recommendation.parameter \notin DOMAIN parameter_limits
      THEN TRUE
      ELSE LET limits == parameter_limits[recommendation.parameter]
           IN  /\ limits.min <= recommendation.recommended_value
               /\ recommendation.recommended_value <= limits.max

\* ---- predict_yield ------------------------------------------------------
\* Percentages of the request are in tenths of a percent; yields of the
\* result are fractions of a percent.
WARNING_YIELD == 95

CRITICAL_YIELD == 93

\* base_yield before the clamp.  In twentieths of a percent the in-spec
\* percentage less the two penalties is b; with a history of n yields
\* summing to s tenths, base_yield + (s/n - base_yield) * 0.1 is
\* (9 b n + 2 s) / (200 n).
BaseYield(batch_profile, historical_yields) ==
  LET rsd_penalty == Max(0, (batch_profile.weight_rsd - TARGET_RSD) * 2)
      reject_penalty2 == Max(0, batch_profile.reject_rate - TARGET_REJECT_RATE)
      b == 2 * batch_profile.in_spec_percentage - 2 * rsd_penalty - reject_penalty2
      n == Len(historical_yields)
  IN  IF historical_yields # <<>>
      THEN <<9 * b * n + 2 * Sum(historical_yields), 200 * n>>
      ELSE <<b, 20>>

\* CurrentYield without the lower limit of 85.
CurrentYieldNoFloor(base_yield) ==
  IF base_yield[1] > 99 * base_yield[2] THEN <<99, 1>> ELSE base_yield

\* max(85, min(99, base_yield))
CurrentYield(base_yield) ==
  IF base_yield[1] > 99 * base_yield[2] THEN <<99, 1>>
  ELSE IF base_yield[1] < 85 * base_yield[2] THEN <<85, 1>>
  ELSE base_yield

\* min(99.5, current_yield + active_recommendations * 0.5 + 1.5)
CorrectedYield(current_yield, active_recommendations) ==
  LET num == 2 * current_yield[1] + (active_recommendations + 3) * current_yield[2]
      den == 2 * current_yield[2]
  IN  IF 2 * num > 199 * den THEN <<199, 2>> ELSE <<num, den>>

YieldRisk(current_yield) ==
  IF current_yield[1] < CRITICAL_YIELD * current_yield[2] THEN "high"
  ELSE IF current_yield[1] < WARNING_YIELD * current_yield[2] THEN "medium"
  ELSE "low"

\* confidence_level is in hundredths, the reject rates in tenths.
predict_yield(input_data) ==
  LET batch_profile == input_data.batch_profile
      historical_yields == input_data.historical_yields
      active_recommendations == input_data.active_recommendations
      current_yield == CurrentYield(BaseYield(batch_profile, historical_yields))
      corrected_yield == CorrectedYield(current_yield, active_recommendations)
  IN  [current_yield |-> current_yield,
       corrected_yield |-> corrected_yield,
       current_reject_rate |-> batch_profile.reject_rate,
       corrected_reject_rate |->
         Max(3, batch_profile.reject_rate - active_recommendations * 4),
       confidence_level |->
         Min(95, 80 + Len(historical_yields) + active_recommendations * 2),
       risk_level |-> YieldRisk(current_yield),
       potential_improvement |->
         <<corrected_yield[1] * current_yield[2] - current_yield[1] * corrected_yield[2],
           corrected_yield[2] * current_yield[2]>>]

(***************************************************************************)
(* Vision engine: agents/vision_agent.py                                   *)
(* A confidence is a whole number of hundredths.                           *)
(***************************************************************************)
HIGH_CONFIDENCE == 85

LOW_CONFIDENCE == 50

DEFAULT_SEVERITY_MAP ==
  [ppe_violation |-> "moderate", surface_damage |-> "moderate", leak |-> "critical",
   contamination |-> "critical", safety_hazard |-> "critical"]

ALERT_ROUTING_RULES ==
  [ppe_violation |-> <<"supervisor", "safety_officer">>,
   surface_damage |-> <<"maintenance", "qa_inspector">>,
   leak |-> <<"maintenance", "supervisor", "safety_officer">>,
   contamination |-> <<"qa_inspector", "supervisor", "production_manager">>,
   safety_hazard |-> <<"safety_officer", "supervisor", "security">>]

\* d.get(key, default) of a dict given as a function on strings
Get(d, key, default) == IF key \in DOMAIN d THEN d[key] ELSE default

\* The text is named by what selects it: type, severity and location, or the
\* location alone for the fallback.
generate_recommendation(detection_type, severity, location) ==
  IF detection_type \in DOMAIN DEFAULT_SEVERITY_MAP
       /\ severity \in {"minor", "moderate", "critical"}
  THEN <<detection_type, severity, location>>
  ELSE <<"Review detection", location>>

\* round(x) of a float x whose exact value is num / den, den > 0.  The float
\* is within rounding error of num / den, so away from a half it rounds as
\* num / den does, and on an exact half it may lie on either side of it.
RoundFloat(num, den) ==
  IF 2 * (num % den) = den THEN {num \div den, num \div den + 1}
  ELSE {PyRound(num, den)}

\* calculate_priority_score with a multiplier of 1 for every confidence.
PriorityScoreIgnoringConfidence(detection_type, severity, confidence) ==
  LET severity_weights == [minor |-> 20, moderate |-> 50, critical |-> 90]
      type_weights == [contamination |-> 10, leak |-> 10, safety_hazard |-> 8,
                       ppe_violation |-> 5, surface_damage |-> 3]
      base_score == Get(severity_weights, severity, 20)
      type_bonus == Get(type_weights, detection_type, 0)
  IN  {Min(100, r) : r \in RoundFloat(base_score + type_bonus, 1)}

\* The scores the float product can round to:
\* (base_score + type_bonus) * (0.5 + confidence * 0.5), confidence in
\* hundredths, is (base_score + type_bonus) * (100 + confidence) / 200.
calculate_priority_score(detection_type, severity, confidence) ==
  LET severity_weights == [minor |-> 20, moderate |-> 50, critical |-> 90]
      type_weights == [contamination |-> 10, leak |-> 10, safety_hazard |-> 8,
                       ppe_violation |-> 5, surface_damage |-> 3]
      base_score == Get(severity_weights, severity, 20)
      type_bonus == Get(type_weights, detection_type, 0)
  IN  {Min(100, r) :
         r \in RoundFloat((base_score + type_bonus) * (100 + confidence), 200)}

\* DetectionSeverity that escalates from HIGH_CONFIDENCE on, not above it.
DetectionSeverityEscalatesAtHigh(detection_type, confidence) ==
  LET base_severity == Get(DEFAULT_SEVERITY_MAP, detection_type, "minor")
  IN  IF confidence < LOW_CONFIDENCE THEN "minor"
      ELSE IF confidence >= HIGH_CONFIDENCE /\ base_severity # "critical"
           THEN (IF base_severity = "minor" THEN "moderate" ELSE "critical")
           ELSE base_severity

\* DetectionSeverity with the two outcomes of the escalation exchanged.
DetectionSeveritySwappedEscalation(detection_type, confidence) ==
  LET base_severity == Get(DEFAULT_SEVERITY_MAP, detection_type, "minor")
  IN  IF confidence < LOW_CONFIDENCE THEN "minor"
      ELSE IF confidence > HIGH_CONFIDENCE /\ base_severity # "critical"
           THEN (IF base_severity = "minor" THEN "critical" ELSE "moderate")
           ELSE base_severity

\* The severity analyze_detection settles on.
DetectionSeverity(detection_type, confidence) ==
  LET base_severity == Get(DEFAULT_SEVERITY_MAP, detection_type, "minor")
  IN  IF confidence < LOW_CONFIDENCE THEN "minor"
      ELSE IF confidence > HIGH_CONFIDENCE /\ base_severity # "critical"
           THEN (IF base_severity = "minor" THEN "moderate" ELSE "critical")
           ELSE base_severity

\* The results analyze_detection can return: one for each priority score.
analyze_detection(input_data, now) ==
  LET detection_type == input_data.type
      severity == DetectionSeverity(detection_type, input_data.confidence)
  IN  {[id |-> input_data.id,
        type |-> detection_type,
        severity |-> severity,
        location |-> input_data.location,
        timestamp |-> IF input_data.timestamp = None THEN now
                      ELSE input_data.timestamp[1],
        confidence |-> input_data.confidence,
        recommendation |->
          generate_recommendation(detection_type, severity, input_data.location),
        priority_score |-> priority_score,
        alert_recipients |-> Get(ALERT_ROUTING_RULES, detection_type, <<"supervisor">>),
        status |-> "detected",
        requires_immediate |-> severity = "critical"] :
       priority_score \in
         calculate_priority_score(detection_type, severity, input_data.confidence)}

\* ---- detect_baseline_deviation ------------------------------------------
\* Baseline metrics and deviations are whole numbers of half a percent, which
\* floats hold exactly.
PPE_COMPLIANCE_TARGET == 196

SURFACE_CONDITION_TARGET == 194

ENVIRONMENTAL_TARGET == 198

SAFETY_SCORE_TARGET == 192

MINOR_DEVIATION == 4

MODERATE_DEVIATION == 10

CRITICAL_DEVIATION == 20

\* The action is named by what selects it: the metric and whether the
\* deviation is above 5 points.
get_deviation_action(metric_key, deviation) ==
  IF metric_key \in {"ppe_compliance", "surface_condition", "environmental_norm",
                     "safety_score"}
  THEN <<metric_key, IF deviation > 10 THEN "above 5" ELSE "up to 5">>
  ELSE <<"Investigate and address deviation">>

\* DeviationSeverity with the two thresholds exclusive.
DeviationSeverityExclusive(deviation) ==
  IF deviation > CRITICAL_DEVIATION THEN "high"
  ELSE IF deviation > MODERATE_DEVIATION THEN "medium"
  ELSE "low"

\* The severity of a deviation above zero.
DeviationSeverity(deviation) ==
  IF deviation >= CRITICAL_DEVIATION THEN "high"
  ELSE IF deviation >= MODERATE_DEVIATION THEN "medium"
  ELSE "low"

\* The default baseline: the four targets of Config.
DefaultBaseline ==
  [ppe_compliance |-> PPE_COMPLIANCE_TARGET,
   surface_condition |-> SURFACE_CONDITION_TARGET,
   environmental_norm |-> ENVIRONMENTAL_TARGET,
   safety_score |-> SAFETY_SCORE_TARGET]

\* The metrics list of detect_baseline_deviation.
Metrics(baseline) ==
  <<[key |-> "ppe_compliance", label |-> "PPE Compliance",
     target |-> baseline.ppe_compliance],
    [key |-> "surface_condition", label |-> "Surface Condition",
     target |-> baseline.surface_condition],
    [key |-> "environmental_norm", label |-> "Environmental",
     target |-> baseline.environmental_norm],
    [key |-> "safety_score", label |-> "Safety Score",
     target |-> baseline.safety_score]>>

\* The BaselineDeviationOutput of one metric (its id is a fresh uuid and is
\* left out).
BaselineDeviation(metric, current_value, now) ==
  LET deviation == metric.target - current_value
  IN  [metric |-> metric.label,
       baseline_value |-> metric.target,
       current_value |-> current_value,
       deviation |-> deviation,
       severity |-> DeviationSeverity(deviation),
       detected_at |-> now,
       trend |-> IF deviation > MINOR_DEVIATION THEN "declining" ELSE "stable",
       recommended_action |-> get_deviation_action(metric.key, deviation)]

RECURSIVE DeviationsOf(_, _, _)
\* The loop over the metrics: one output for each metric below its target.
DeviationsOf(metrics, current, now) ==
  IF metrics = <<>> THEN <<>>
  ELSE LET metric == Head(metrics)
           current_value == current[metric.key]
       IN  (IF metric.target - current_value > 0
            THEN <<BaselineDeviation(metric, current_value, now)>>
            ELSE <<>>)
           \o DeviationsOf(Tail(metrics), current, now)

\* baseline is an optional; a BaselineMetricsInput is always truthy.
detect_baseline_deviation(current, baseline, now) ==
  DeviationsOf(Metrics(IF baseline = None THEN DefaultBaseline ELSE baseline[1]),
               current, now)

\* ---- route_alert --------------------------------------------------------
get_workflow_integrations(detection_type) ==
  LET integrations ==
        [ppe_violation |-> <<"MES", "Incident Management">>,
         surface_damage |-> <<"CMMS", "MES">>,
         leak |-> <<"CMMS", "MES", "EHS">>,
         contamination |-> <<"MES", "QMS", "Incident Management">>,
         safety_hazard |-> <<"EHS", "Incident Management", "Security">>]
  IN  Get(integrations, detection_type, <<"MES">>)

NotificationMethods(severity) ==
  <<"push">> \o (IF severity = "critical" THEN <<"sms", "alarm">>
                 ELSE IF severity = "moderate" THEN <<"email">>
                 ELSE <<>>)

EscalationPath(severity) ==
  IF severity = "critical" THEN <<"supervisor", "production_manager", "plant_manager">>
  ELSE IF severity = "moderate" THEN <<"supervisor", "production_manager">>
  ELSE <<"supervisor">>

\* DeadlineMinutes that gives a severity it does not know the moderate deadline.
DeadlineMinutesDefaultModerate(severity) ==
  Get([critical |-> 5, moderate |-> 30], severity, 30)

DeadlineMinutes(severity) ==
  Get([critical |-> 5, moderate |-> 30], severity, 120)

\* now and response_deadline are in minutes.
route_alert(detection, now) ==
  [detection_id |-> detection.id,
   recipients |-> detection.alert_recipients,
   notification_methods |-> NotificationMethods(detection.severity),
   escalation_path |-> EscalationPath(detection.severity),
   response_deadline |-> now + DeadlineMinutes(detection.severity),
   auto_escalate |-> detection.severity = "critical",
   workflow_integrations |-> get_workflow_integrations(detection.type)]

\* ---- analyze_vision_metrics ---------------------------------------------
\* The weights count half defects.
CRITICAL_WEIGHT == 6

MODERATE_WEIGHT == 3

MINOR_WEIGHT == 1

\* sum(1 for d in detections if d.severity == severity)
CountSeverity(detections, severity) ==
  Len(SelectSeq(detections, LAMBDA d : d.severity = severity))

\* weighted_defects, in halves.
WeightedDefects(detections) ==
  CountSeverity(detections, "critical") * CRITICAL_WEIGHT
  + CountSeverity(detections, "moderate") * MODERATE_WEIGHT
  + CountSeverity(detections, "minor") * MINOR_WEIGHT

\* RftPercentage without the max(0, .).
RftPercentageNoFloor(detections, total_inspections) ==
  LET den == 2 * Max(1, total_inspections)
      num == 100 * den - 10 * WeightedDefects(detections)
  IN  IF num > 100 * den THEN <<100 * den, den>> ELSE <<num, den>>

\* rft_percentage as the fraction <<num, den>>:
\* 100 - (weighted_defects / max(1, total_inspections)) * 10 within [0, 100].
RftPercentage(detections, total_inspections) ==
  LET den == 2 * Max(1, total_inspections)
      num == 100 * den - 10 * WeightedDefects(detections)
  IN  IF num < 0 THEN <<0, den>>
      ELSE IF num > 100 * den THEN <<100 * den, den>>
      ELSE <<num, den>>

\* risk_level; rft is a fraction.
VisionRisk(critical_count, moderate_count, rft) ==
  IF critical_count > 0 \/ rft[1] < 90 * rft[2] THEN "high"
  ELSE IF moderate_count > 2 \/ rft[1] < 95 * rft[2] THEN "medium"
  ELSE "low"

\* The recommendations, each named by the head of its message.
VisionRecommendations(detections, baseline_deviations, rft) ==
  LET ppe_violations == SelectSeq(detections, LAMBDA d : d.type = "ppe_violation")
      maintenance_issues ==
        SelectSeq(detections, LAMBDA d : d.type \in {"surface_damage", "leak"})
      high_deviations == SelectSeq(baseline_deviations, LAMBDA d : d.severity = "high")
      recommendations ==
        (IF Len(ppe_violations) > 2 THEN <<"Schedule PPE compliance refresher">>
         ELSE <<>>)
        \o (IF maintenance_issues # <<>> THEN <<"Accelerate preventive maintenance">>
            ELSE <<>>)
        \o (IF high_deviations # <<>> THEN <<"Conduct root cause analysis">> ELSE <<>>)
        \o (IF rft[1] < 95 * rft[2] THEN <<"Implement additional quality checkpoints">>
            ELSE <<>>)
  IN  IF recommendations = <<>> THEN <<"Maintain current practices">>
      ELSE recommendations

\* ConfidenceScore that takes the mean of no detections to be 0.
ConfidenceScoreZeroWithoutDetections(detections) ==
  IF detections = <<>> THEN {0}
  ELSE RoundFloat(Sum([i \in DOMAIN detections |-> detections[i].confidence]),
                  Len(detections))

\* round(avg_confidence, 2) in hundredths: the values the float mean can
\* round to, 1.0 without detections.
ConfidenceScore(detections) ==
  IF detections = <<>> THEN {100}
  ELSE RoundFloat(Sum([i \in DOMAIN detections |-> detections[i].confidence]),
                  Len(detections))

\* The results analyze_vision_metrics can return: one for each confidence
\* score.
analyze_vision_metrics(input_data, now) ==
  LET detections == input_data.detections
      critical_count == CountSeverity(detections, "critical")
      moderate_count == CountSeverity(detections, "moderate")
      minor_count == CountSeverity(detections, "minor")
      rft_percentage == RftPercentage(detections, input_data.total_inspections)
      baseline_deviations ==
        detect_baseline_deviation(input_data.baseline_metrics, None, now)
  IN  {[rft_percentage |-> rft_percentage,
        total_detections |-> Len(detections),
        critical_count |-> critical_count,
        moderate_count |-> moderate_count,
        minor_count |-> minor_count,
        unresolved_count |->
          Len(SelectSeq(detections, LAMBDA d : d.status # "resolved")),
        baseline_deviations |-> baseline_deviations,
        risk_level |-> VisionRisk(critical_count, moderate_count, rft_percentage),
        recommendations |->
          VisionRecommendations(detections, baseline_deviations, rft_percentage),
        confidence_score |-> confidence_score] :
       confidence_score \in ConfidenceScore(detections)}

(***************************************************************************)
(* Requests                                                                *)
(***************************************************************************)
\* ScheduledBatchInput: a batch occupies [start_time, end_time) and ends
\* after it starts.
ScheduledBatches ==
  {b \in [start_time : 0..MaxTime, end_time : 0..MaxTime] : b.start_time < b.end_time}

Schedules == SeqUpTo(ScheduledBatches, MaxBatches)

FindIdleWindowRequests ==
  [schedule : Schedules, duration_hours : 1..MaxDuration, now : 0..MaxNow]

\* SensorData readings: the quiet reading, readings with one channel raised
\* through its tiers, and the reading with every channel raised.
VibrationReadings == {45, 55, 65, 80}

TemperatureReadings == {60, 70, 80, 81}

MotorLoadReadings == {85, 92, 96}

Readings ==
  {r \in [vibration : VibrationReadings, temperature : TemperatureReadings,
          motor_load : MotorLoadReadings] :
     \/ Cardinality({c \in {"v", "t", "m"} :
                       \/ c = "v" /\ r.vibration # 45
                       \/ c = "t" /\ r.temperature # 60
                       \/ c = "m" /\ r.motor_load # 85}) <= 1
     \/ r = [vibration |-> 80, temperature |-> 81, motor_load |-> 96]}

\* A telemetry window: sample i was taken at instant i.
SensorWindows ==
  {[i \in 1..Len(w) |->
      [vibration |-> w[i].vibration, temperature |-> w[i].temperature,
       motor_load |-> w[i].motor_load, timestamp |-> i]] :
     w \in SeqUpTo(Readings, MaxSamples)}

DetectAnomaliesRequests ==
  [sensor_data : SensorWindows,
   vibration_threshold : {None, Some(0), Some(40), Some(-40)},
   temperature_threshold : {None, Some(0), Some(60)},
   motor_load_threshold : {None, Some(0), Some(80)}]

Components ==
  [health : {29, 30, 49, 50, 59, 60, 69, 70},
   rul : {499, 500},
   trend : {"stable", "declining", "critical"}]

AnalyzeComponentRequests ==
  [component : Components, schedule : SeqUpTo(ScheduledBatches, 1),
   now : 0..MaxNow]

PredictRulRequests ==
  [input_data : [current_health : {0, 1, 2, 3, 80, 100},
                 vibration_level : {40, 50, 60},
                 temperature_delta : {8, 10, 12},
                 motor_load_avg : {85, 90, 95}],
   now : 0..MaxNow]

\* BatchOrderInput: the batch at position i of the queue has id i, so ids are
\* pairwise distinct, as the data model has them.
Drugs == {"Amoxicillin", "Ibuprofen", "Metformin"}

Densities == {"low", "medium", "high"}

BatchQueues ==
  {[i \in 1..Len(q) |-> [id |-> i, drug |-> q[i].drug, density |-> q[i].density]] :
     q \in SeqUpTo([drug : Drugs, density : Densities], MaxOrders)}

GroupBatchesRequests == [batches : BatchQueues]

\* The first n batches of a queue of one product.
SomeBatches(n) == [i \in 1..n |-> [id |-> i, drug |-> "Ibuprofen", density |-> "low"]]

\* ScheduleGroupOutput as a request carries it: the three groups group_batches
\* builds, of any size, and the same with another cleaning time (an int of any
\* sign, also one above the full cleaning time).
RequestGroups ==
  {[g EXCEPT !.cleaning_time_minutes = t] :
     g \in {ScheduleGroup("same-drug-same-density", "Same Drug + Same Density",
                          SomeBatches(n), "none", NO_CLEANING_TIME,
                          SAME_DRUG_SAME_DENSITY_SAVINGS, 1, "emerald") :
              n \in 0..MaxGroupSize}
         \cup
            {ScheduleGroup("same-drug-diff-density", "Same Drug + Different Density",
                          SomeBatches(n), "partial", PARTIAL_CLEANING_TIME,
                          SAME_DRUG_DIFF_DENSITY_SAVINGS, 2, "amber") :
              n \in 0..MaxGroupSize}
         \cup
            {ScheduleGroup("diff-drug-diff-density",
                          "Different Drug + Different Density",
                          SomeBatches(n), "full", FULL_CLEANING_TIME,
                          DIFF_DRUG_DIFF_DENSITY_SAVINGS, 3, "rose") :
              n \in 0..MaxGroupSize},
     t \in {-15, NO_CLEANING_TIME, PARTIAL_CLEANING_TIME, FULL_CLEANING_TIME, 60}}

GroupLists == SeqUpTo(RequestGroups, MaxGroups)

ConditionNames == {"Operator Skill", "Machine Wear", "Room Clearance", "QA Release"}

ConditionLists ==
  SeqUpTo([name : ConditionNames, status : {"ready", "warning", "blocked"}],
          MaxConditions)

\* ResourceConstraintInput; a request without constraints gets the one with
\* every field None.
NoConstraints == [min_operator_skill |-> None, max_machine_wear |-> None]

Constraints ==
  [min_operator_skill : {None, Some(2), Some(3)},
   max_machine_wear : {None, Some(90)}]

FailureLists ==
  SeqUpTo({[processName |-> "Blending", lineId |-> "Line 1"],
           [processName |-> "Compression", lineId |-> "Line 2"]}, MaxFailures)

\* A few groups and a few conditions, for the requests that vary the rest.
FewGroupLists ==
  {<<>>,
   <<ScheduleGroup("diff-drug-diff-density", "Different Drug + Different Density",
                   SomeBatches(2), "full", FULL_CLEANING_TIME,
                   DIFF_DRUG_DIFF_DENSITY_SAVINGS, 3, "rose")>>}

FewConditionLists ==
  {<<>>,
   <<[name |-> "Room Clearance", status |-> "warning"],
     [name |-> "Operator Skill", status |-> "blocked"]>>}

OptimizeScheduleRequests ==
  [groups : GroupLists, conditions : FewConditionLists, constraints : {NoConstraints}]
  \cup
  [groups : FewGroupLists, conditions : ConditionLists, constraints : Constraints]

ValidateScheduleRequests ==
  [groups : GroupLists, conditions : FewConditionLists,
   equipment_failures : SeqUpTo({[processName |-> "Blending", lineId |-> "Line 1"]}, 1)]
  \cup
  [groups : FewGroupLists, conditions : ConditionLists,
   equipment_failures : FailureLists]

\* A signal with every monitored parameter at 4.0.  detect_drift reads the
\* five monitored parameters only.
SteadySignal ==
  [weight |-> 512, thickness |-> 512, hardness |-> 512,
   feeder_speed |-> 512, turret_speed |-> 512]

\* Signals: steady; the weight a little or a lot off, or at -2/128 or 2/128
\* (two of these average 0); one other parameter off; every parameter off.
Signals ==
  {SteadySignal}
  \cup {[SteadySignal EXCEPT !.weight = w] : w \in {513, 514, 515, 518, -2, 2}}
  \cup {[SteadySignal EXCEPT ![k] = 518] :
          k \in {"thickness", "hardness", "feeder_speed", "turret_speed"}}
  \cup {[weight |-> 518, thickness |-> 518, hardness |-> 518,
         feeder_speed |-> 518, turret_speed |-> 518]}

\* window_size is an int: any sign.
DetectDriftRequests ==
  [signals : SeqUpTo(Signals, MaxSignals), window_size : -1..MaxWindow]

\* The five types of the severity map and one it does not know.
DetectionTypes ==
  {"ppe_violation", "surface_damage", "leak", "contamination", "safety_hazard",
   "spill"}

\* VisionDetectionInput: confidence is within [0, 1]; timestamp is optional.
AnalyzeDetectionRequests ==
  [detection : [id : {"det-1"}, type : DetectionTypes, location : {"Room 2"},
                confidence : 0..100, timestamp : {None, Some(1)}],
   now : {2}]

\* SOP limits with min = max for every parameter, and limits whose min is
\* above their max (the limits are plain dicts, nothing orders them).
PinnedSopLimits ==
  [feeder_speed |-> [min |-> 300, max |-> 300, unit |-> "rpm"],
   turret_speed |-> [min |-> 403, max |-> 403, unit |-> "rpm"],
   pre_compression_force |-> [min |-> 48, max |-> 48, unit |-> "kN"],
   main_compression_force |-> [min |-> 160, max |-> 160, unit |-> "kN"]]

InvertedSopLimits ==
  [feeder_speed |-> [min |-> 350, max |-> 200, unit |-> "rpm"],
   turret_speed |-> [min |-> 550, max |-> 400, unit |-> "rpm"],
   pre_compression_force |-> [min |-> 50, max |-> 20, unit |-> "kN"],
   main_compression_force |-> [min |-> 200, max |-> 120, unit |-> "kN"]]

\* Values on both sides of every test of generate_recommendations and of
\* every default limit.
GenerateRecommendationsRequests ==
  [signals : [weight : {4970, 4975, 5000, 5030},
              hardness : {105, 110, 135},
              feeder_speed : {190, 200, 300, 350, 360},
              main_compression_force : {120, 160, 200},
              turret_speed : {400, 403, 550},
              pre_compression_force : {20, 48, 50}],
   profile : [weight_rsd : {15, 20}, reject_rate : {15, 20}],
   sop_limits : {None, Some(PinnedSopLimits), Some(InvertedSopLimits)},
   specs : {None, Some([weight |-> [target |-> 4970, tolerance |-> 0],
                        hardness |-> [target |-> 105]])}]

\* YieldRecommendationOutput: the fields validate_recommendation reads, with
\* values on both sides of every limit and a parameter without limits.
ValidateRecommendationRequests ==
  [recommendation :
     [parameter : {"Feeder Speed", "Turret Speed", "Pre-Compression Force",
                   "Main Compression Force", "Vacuum"},
      recommended_value : {19, 20, 48, 50, 51, 119, 120, 160, 200, 201, 300,
                           350, 351, 399, 400, 403, 550, 551}],
   sop_limits : {None, Some(PinnedSopLimits), Some(InvertedSopLimits)}]

\* YieldPredictionInput: the fields predict_yield reads.
\* active_recommendations is an int of any sign.
PredictYieldRequests ==
  [input_data :
     [batch_profile : [in_spec_percentage : {800, 930, 950, 970, 1000},
                       weight_rsd : {15, 20, 35},
                       reject_rate : {2, 15, 25, 35}],
      historical_yields : SeqUpTo({900, 930, 990}, MaxHistory),
      active_recommendations : {-1, 0, 1, 8}]]

\* Levels of a baseline metric, in half percents: 88 % to 100 %.
MetricLevels == {176, 182, 186, 188, 190, 191, 192, 194, 196, 198, 200}

\* BaselineMetricsInput
BaselineMetrics ==
  [ppe_compliance : MetricLevels, surface_condition : MetricLevels,
   environmental_norm : MetricLevels, safety_score : MetricLevels]

\* A baseline of the caller's: 100 % PPE compliance, 95 % for the rest.
OwnBaseline ==
  [ppe_compliance |-> 200, surface_condition |-> 190,
   environmental_norm |-> 190, safety_score |-> 190]

DetectBaselineDeviationRequests ==
  [current : BaselineMetrics, baseline : {None, Some(OwnBaseline)}, now : {2}]

\* The three severities of a VisionDetectionOutput and one that is none of
\* them (severity is a plain str).
Severities == {"minor", "moderate", "critical", "severe"}

\* VisionDetectionOutput, with the fields route_alert reads.
RouteAlertRequests ==
  [detection : [id : {"det-1"}, type : DetectionTypes, severity : Severities,
                alert_recipients : {<<>>, <<"supervisor">>,
                                    <<"maintenance", "qa_inspector">>}],
   now : 0..MaxNow]

\* A few detections as analyze_vision_metrics is given them, one with a
\* severity that is none of the three; the fields it reads.
SomeDetections ==
  {[severity |-> "critical", type |-> "leak", confidence |-> 93, status |-> "detected"],
   [severity |-> "moderate", type |-> "ppe_violation", confidence |-> 50,
    status |-> "detected"],
   [severity |-> "moderate", type |-> "ppe_violation", confidence |-> 51,
    status |-> "resolved"],
   [severity |-> "minor", type |-> "contamination", confidence |-> 100,
    status |-> "detected"],
   [severity |-> "severe", type |-> "spill", confidence |-> 85, status |-> "resolved"],
   [severity |-> "critical", type |-> "contamination", confidence |-> 90,
    status |-> "detected"]}

\* VisionAnalysisInput; total_inspections is any int.
AnalyzeVisionMetricsRequests ==
  [input_data :
     [detections : SeqUpTo(SomeDetections, MaxDetections),
      baseline_metrics :
        {DefaultBaseline, [DefaultBaseline EXCEPT !.ppe_compliance = 176]},
      total_inspections : (-1..MaxInspections) \cup {10}],
   now : {2}]

(***************************************************************************)
(* The calls                                                               *)
(***************************************************************************)
Requests(o) ==
  CASE o = "find_idle_window" -> FindIdleWindowRequests
    [] o = "detect_anomalies" -> DetectAnomaliesRequests
    [] o = "analyze_component" -> AnalyzeComponentRequests
    [] o = "predict_rul" -> PredictRulRequests
    [] o = "group_batches" -> GroupBatchesRequests
    [] o = "optimize_schedule" -> OptimizeScheduleRequests
    [] o = "validate_schedule" -> ValidateScheduleRequests
    [] o = "detect_drift" -> DetectDriftRequests
    [] o = "generate_recommendations" -> GenerateRecommendationsRequests
    [] o = "predict_yield" -> PredictYieldRequests
    [] o = "validate_recommendation" -> ValidateRecommendationRequests
    [] o = "analyze_detection" -> AnalyzeDetectionRequests
    [] o = "detect_baseline_deviation" -> DetectBaselineDeviationRequests
    [] o = "route_alert" -> RouteAlertRequests
    [] o = "analyze_vision_metrics" -> AnalyzeVisionMetricsRequests

\* A request has arrived and its handler has not run yet.
Called(ops) ==
  /\ op \in ops
  /\ inp \in Requests(op)
  /\ out = None
  /\ pc = "call"

\* The handler of operation o has returned.
Done(o) == pc = "done" /\ op = o

FindIdleWindow ==
  /\ pc = "call"
  /\ op = "find_idle_window"
  /\ out' = find_idle_window(inp.schedule, inp.duration_hours, inp.now)
  /\ pc' = "done"
  /\ UNCHANGED <<op, inp>>

DetectAnomalies ==
  /\ pc = "call"
  /\ op = "detect_anomalies"
  /\ out' = detect_anomalies(inp.sensor_data, inp.vibration_threshold,
                             inp.temperature_threshold, inp.motor_load_threshold)
  /\ pc' = "done"
  /\ UNCHANGED <<op, inp>>

AnalyzeComponent ==
  /\ pc = "call"
  /\ op = "analyze_component"
  /\ out' = analyze_component(inp.component, inp.schedule, inp.now)
  /\ pc' = "done"
  /\ UNCHANGED <<op, inp>>

PredictRul ==
  /\ pc = "call"
  /\ op = "predict_rul"
  /\ out' = predict_rul(inp.input_data, inp.now)
  /\ pc' = "done"
  /\ UNCHANGED <<op, inp>>

MaintenanceOps ==
  {"find_idle_window", "detect_anomalies", "analyze_component", "predict_rul"}

InitMaintenance == Called(MaintenanceOps)

NextMaintenance ==
  \/ FindIdleWindow
  \/ DetectAnomalies
  \/ AnalyzeComponent
  \/ PredictRul

SpecMaintenance == InitMaintenance /\ [][NextMaintenance]_vars

GroupBatches ==
  /\ pc = "call"
  /\ op = "group_batches"
  /\ out' = group_batches(inp.batches)
  /\ pc' = "done"
  /\ UNCHANGED <<op, inp>>

OptimizeSchedule ==
  /\ pc = "call"
  /\ op = "optimize_schedule"
  /\ out' = optimize_schedule(inp.groups, inp.conditions, inp.constraints)
  /\ pc' = "done"
  /\ UNCHANGED <<op, inp>>

ValidateSchedule ==
  /\ pc = "call"
  /\ op = "validate_schedule"
  /\ out' = validate_schedule(inp.groups, inp.conditions,
                              inp.equipment_failures)
  /\ pc' = "done"
  /\ UNCHANGED <<op, inp>>

SchedulingOps == {"group_batches", "optimize_schedule", "validate_schedule"}

InitScheduling == Called(SchedulingOps)

NextScheduling ==
  \/ GroupBatches
  \/ OptimizeSchedule
  \/ ValidateSchedule

SpecScheduling == InitScheduling /\ [][NextScheduling]_vars

\* detect_drift as the agent exposes it: window_size is used as it is given.
DetectDrift ==
  /\ pc = "call"
  /\ op = "detect_drift"
  /\ out' = detect_drift(inp.signals, inp.window_size)
  /\ pc' = "done"
  /\ UNCHANGED <<op, inp>>

GenerateRecommendations ==
  /\ pc = "call"
  /\ op = "generate_recommendations"
  /\ out' = generate_recommendations(inp.signals, inp.profile, inp.sop_limits,
                                     inp.specs)
  /\ pc' = "done"
  /\ UNCHANGED <<op, inp>>

PredictYield ==
  /\ pc = "call"
  /\ op = "predict_yield"
  /\ out' = predict_yield(inp.input_data)
  /\ pc' = "done"
  /\ UNCHANGED <<op, inp>>

ValidateRecommendation ==
  /\ pc = "call"
  /\ op = "validate_recommendation"
  /\ out' = validate_recommendation(inp.recommendation, inp.sop_limits)
  /\ pc' = "done"
  /\ UNCHANGED <<op, inp>>

YieldOps ==
  {"detect_drift", "generate_recommendations", "predict_yield",
   "validate_recommendation"}

InitYield == Called(YieldOps)

NextYield ==
  \/ DetectDrift
  \/ GenerateRecommendations
  \/ PredictYield
  \/ ValidateRecommendation

SpecYield == InitYield /\ [][NextYield]_vars

AnalyzeDetection ==
  /\ pc = "call"
  /\ op = "analyze_detection"
  /\ out' \in analyze_detection(inp.detection, inp.now)
  /\ pc' = "done"
  /\ UNCHANGED <<op, inp>>

DetectBaselineDeviation ==
  /\ pc = "call"
  /\ op = "detect_baseline_deviation"
  /\ out' = detect_baseline_deviation(inp.current, inp.baseline, inp.now)
  /\ pc' = "done"
  /\ UNCHANGED <<op, inp>>

RouteAlert ==
  /\ pc = "call"
  /\ op = "route_alert"
  /\ out' = route_alert(inp.detection, inp.now)
  /\ pc' = "done"
  /\ UNCHANGED <<op, inp>>

AnalyzeVisionMetrics ==
  /\ pc = "call"
  /\ op = "analyze_vision_metrics"
  /\ out' \in analyze_vision_metrics(inp.input_data, inp.now)
  /\ pc' = "done"
  /\ UNCHANGED <<op, inp>>

VisionOps ==
  {"analyze_detection", "detect_baseline_deviation", "route_alert",
   "analyze_vision_metrics"}

InitVision == Called(VisionOps)

NextVision ==
  AnalyzeDetection \/ DetectBaselineDeviation \/ RouteAlert \/ AnalyzeVisionMetrics

SpecVision == InitVision /\ [][NextVision]_vars

\* ---- The calls on degenerate inputs ---------------------------------------
\* Every group of the list is empty (so is the list without groups).
OnlyEmptyGroups(groups) == \A i \in DOMAIN groups : groups[i].batches = <<>>

\* Every signal of the list is the first one (so is the empty list).
ConstantSignals(signals) == \A i \in DOMAIN signals : signals[i] = signals[1]

\* The group lists of the requests whose groups are all empty.
EmptyGroupLists == {groups \in GroupLists : OnlyEmptyGroups(groups)}

\* Requests of operation o with an empty or constant list, no detections or
\* no inspections.
DegenerateRequests(o) ==
  CASE o = "detect_drift" ->
         {r \in DetectDriftRequests : ConstantSignals(r.signals)}
    [] o = "analyze_vision_metrics" ->
         {r \in AnalyzeVisionMetricsRequests :
            r.input_data.detections = <<>> \/ r.input_data.total_inspections = 0}
    [] o = "optimize_schedule" ->
         [groups : EmptyGroupLists, conditions : FewConditionLists,
          constraints : Constraints]
    [] o = "validate_schedule" ->
         [groups : EmptyGroupLists, conditions : FewConditionLists,
          equipment_failures : FailureLists]
    [] o = "find_idle_window" ->
         [schedule : {<<>>}, duration_hours : 1..MaxDuration, now : 0..MaxNow]
    [] o = "analyze_component" ->
         [component : Components, schedule : {<<>>}, now : 0..MaxNow]
    [] o = "detect_anomalies" ->
         {r \in DetectAnomaliesRequests : r.sensor_data = <<>>}
    [] o = "predict_yield" ->
         {r \in PredictYieldRequests : r.input_data.historical_yields = <<>>}

DegenerateOps ==
  {"detect_drift", "analyze_vision_metrics", "optimize_schedule", "validate_schedule",
   "find_idle_window", "analyze_component", "detect_anomalies", "predict_yield"}

InitDegenerate ==
  /\ op \in DegenerateOps
  /\ inp \in DegenerateRequests(op)
  /\ out = None
  /\ pc = "call"

NextDegenerate ==
  \/ DetectDrift
  \/ AnalyzeVisionMetrics
  \/ OptimizeSchedule
  \/ ValidateSchedule
  \/ FindIdleWindow
  \/ AnalyzeComponent
  \/ DetectAnomalies
  \/ PredictYield

SpecDegenerate == InitDegenerate /\ [][NextDegenerate]_vars

(***************************************************************************)
(* Properties                                                              *)
(***************************************************************************)
\* The window and the batch, as half-open intervals, share an instant.
Overlaps(window, b) == window.start < b.end_time /\ b.start_time < window.end

\* C1: for every schedule and every positive duration, the window
\* find_idle_window returns is exactly `duration` long, starts at or after
\* now, and overlaps no batch of the schedule that ends after now.
C1_IdleWindowClearOfFutureBatches ==
  Done("find_idle_window") =>
    /\ out.end - out.start = inp.duration_hours
    /\ out.start >= inp.now
    /\ \A i \in DOMAIN inp.schedule :
         inp.schedule[i].end_time > inp.now => ~Overlaps(out, inp.schedule[i])

\* The batch is in the group's batches list.
InGroup(g, batch) == \E k \in DOMAIN g.batches : g.batches[k].id = batch.id

\* C2: whenever group_batches emits the group of type same-drug-same-density,
\* any two input batches with identical drug and identical density are both
\* in that group's batches list.
C2_SameDrugSameDensityTogether ==
  Done("group_batches") =>
    \A n \in DOMAIN out :
      out[n].type = "same-drug-same-density" =>
        \A i, j \in DOMAIN inp.batches :
          (/\ i # j
           /\ inp.batches[i].drug = inp.batches[j].drug
           /\ inp.batches[i].density = inp.batches[j].density)
          => InGroup(out[n], inp.batches[i]) /\ InGroup(out[n], inp.batches[j])

\* A queue with a same-drug-same-density pair and a batch of another drug,
\* for which the same-drug-same-density group is emitted.
C2_Witness ==
  /\ Done("group_batches")
  /\ \E n \in DOMAIN out : out[n].type = "same-drug-same-density"
  /\ \E i, j, k \in DOMAIN inp.batches :
       /\ i # j
       /\ inp.batches[i].drug = inp.batches[j].drug
       /\ inp.batches[i].density = inp.batches[j].density
       /\ inp.batches[k].drug # inp.batches[i].drug

\* The number of conditions of the request with the given status.
CountStatus(status) ==
  Cardinality({i \in DOMAIN inp.conditions : inp.conditions[i].status = status})

\* C3: validate_schedule: error_count is the number of equipment failures plus
\* the number of blocked conditions; is_valid iff error_count = 0; can_proceed
\* iff error_count = 0 or there is at least one equipment failure; so one
\* failure and two blocked conditions give error_count 3, not valid, can
\* proceed, and is_valid always implies can_proceed.
C3_ValidateScheduleVerdict ==
  Done("validate_schedule") =>
    LET failures == Len(inp.equipment_failures)
    IN  /\ out.error_count = failures + CountStatus("blocked")
        /\ out.is_valid <=> out.error_count = 0
        /\ out.can_proceed <=> (out.error_count = 0 \/ failures >= 1)
        /\ out.is_valid => out.can_proceed
        /\ (failures = 1 /\ CountStatus("blocked") = 2)
             => out.error_count = 3 /\ ~out.is_valid /\ out.can_proceed

\* One equipment failure and two blocked conditions.
C3_Witness ==
  /\ Done("validate_schedule")
  /\ Len(inp.equipment_failures) = 1
  /\ CountStatus("blocked") = 2
  /\ out.can_proceed

\* The places <<group, batch>> of the request's groups: one per batch.
BatchPlaces == {<<i, k>> \in (DOMAIN inp.groups) \X (1..MaxGroupSize + 1) :
                  k <= Len(inp.groups[i].batches)}

\* C4: optimize_schedule: baseline_cleaning_time is 45 times the number of
\* batches over all groups; optimized_cleaning_time is the sum over groups of
\* batch count times cleaning_time_minutes; efficiency_gain is 0 when the
\* baseline is 0 and otherwise the integer nearest to
\* (1 - optimized/baseline) * 100 (the even one on a tie), and it is at most
\* 100 when no cleaning time is negative.
C4_EfficiencyGain ==
  Done("optimize_schedule") =>
    LET baseline == out.baseline_cleaning_time
        optimized == out.optimized_cleaning_time
        gain == out.efficiency_gain
        exact == 100 * (baseline - optimized)   \* times baseline
        perGroup == [i \in DOMAIN inp.groups |->
                       Len(inp.groups[i].batches) * inp.groups[i].cleaning_time_minutes]
    IN  /\ baseline = 45 * Cardinality(BatchPlaces)
        /\ optimized = Sum(perGroup)
        /\ baseline = 0 => gain = 0
        /\ baseline > 0 =>
             /\ 2 * Abs(gain * baseline - exact) <= baseline
             /\ 2 * Abs(gain * baseline - exact) = baseline => gain % 2 = 0
        /\ (\A i \in DOMAIN inp.groups : inp.groups[i].cleaning_time_minutes >= 0)
             => gain <= 100

\* Groups whose gain is neither 0 nor 100 and is a rounded value.
C4_Witness ==
  /\ Done("optimize_schedule")
  /\ out.baseline_cleaning_time > 0
  /\ out.efficiency_gain \notin {0, 100}
  /\ (100 * (out.baseline_cleaning_time - out.optimized_cleaning_time))
       % out.baseline_cleaning_time # 0

\* low < medium < high
SeverityRank == [low |-> 1, medium |-> 2, high |-> 3]

\* The three sources with the field of a sample each one reads.
Sources == {<<"Vibration Sensor", "vibration">>,
            <<"Temperature Sensor", "temperature">>,
            <<"Motor Load Sensor", "motor_load">>}

\* The anomalies reported for sample i by the given source.
AnomaliesAt(i, source) ==
  {k \in DOMAIN out : /\ out[k].timestamp = inp.sensor_data[i].timestamp
                      /\ out[k].source = source}

\* C6: detect_anomalies: for each source and the thresholds of one call, a
\* reading flagged at value a is flagged at every value b >= a, and when both
\* are flagged the severity at a is at most the severity at b in the order
\* low < medium < high.
C6_SeverityMonotonic ==
  Done("detect_anomalies") =>
    \A s \in Sources : \A i, j \in DOMAIN inp.sensor_data :
      (/\ inp.sensor_data[i][s[2]] <= inp.sensor_data[j][s[2]]
       /\ AnomaliesAt(i, s[1]) # {})
      => /\ AnomaliesAt(j, s[1]) # {}
         /\ \A k \in AnomaliesAt(i, s[1]) : \A l \in AnomaliesAt(j, s[1]) :
              SeverityRank[out[k].severity] <= SeverityRank[out[l].severity]

\* Two vibration readings, both flagged, the lower one low and the higher
\* one high.
C6_Witness ==
  /\ Done("detect_anomalies")
  /\ \E i, j \in DOMAIN inp.sensor_data :
       /\ inp.sensor_data[i].vibration < inp.sensor_data[j].vibration
       /\ \E k \in AnomaliesAt(i, "Vibration Sensor") : out[k].severity = "low"
       /\ \E l \in AnomaliesAt(j, "Vibration Sensor") : out[l].severity = "high"

\* C7: analyze_component: requires_maintenance iff health < 70 or rul < 500
\* or trend = "critical"; when true, maintenance_type is spare_replacement iff
\* health < 50 or trend = "critical" (priority critical if health < 30, else
\* high) and otherwise general (priority high if health < 60, else medium);
\* when false, maintenance_type is absent and priority is low.
C7_MaintenanceDecision ==
  Done("analyze_component") =>
    LET c == inp.component
        critical == c.health < 50 \/ c.trend = "critical"
    IN  /\ out.requires_maintenance
             <=> (c.health < 70 \/ c.rul < 500 \/ c.trend = "critical")
        /\ out.requires_maintenance =>
             /\ out.maintenance_type = "spare_replacement" <=> critical
             /\ critical =>
                  out.priority = IF c.health < 30 THEN "critical" ELSE "high"
             /\ ~critical =>
                  /\ out.maintenance_type = "general"
                  /\ out.priority = IF c.health < 60 THEN "high" ELSE "medium"
        /\ ~out.requires_maintenance =>
             /\ out.maintenance_type = "None"
             /\ out.priority = "low"

\* A healthy, declining component that needs maintenance for its remaining
\* life alone.
C7_Witness ==
  /\ Done("analyze_component")
  /\ inp.component.health >= 70
  /\ inp.component.trend # "critical"
  /\ inp.component.rul < 500
  /\ out.maintenance_type = "general"
  /\ out.priority = "medium"

\* C10: predict_rul: degradation_rate = 0.001 x (1.5 if vibration_level > 5.0)
\* x (1.3 if temperature_delta > 10) x (1.4 if motor_load_avg > 90); the
\* reported RUL is current_health / degradation_rate rounded to an integer;
\* confidence = clamp(0.6, 0.95, 0.85 - 0.1|vibration factor - 1|
\* - 0.1|temperature factor - 1|), whatever the motor load;
\* failure_probability = clamp(0.01, 0.99, 1 - RUL/1000); and health 80,
\* vibration 6.0, temperature delta 12, motor load 95 give rate 0.00273,
\* RUL 29304 and confidence 0.77.
C10_PredictRul ==
  Done("predict_rul") =>
    LET d == inp.input_data
        vf == IF d.vibration_level > 50 THEN 15 ELSE 10      \* tenths
        tf == IF d.temperature_delta > 10 THEN 13 ELSE 10
        lf == IF d.motor_load_avg > 90 THEN 14 ELSE 10
        rate == vf * tf * lf                                  \* millionths
        fp == out.failure_probability
        p == rate - 1000 * d.current_health                   \* 1 - RUL/1000 = p/rate
    IN  /\ out.degradation_rate = rate
        /\ 2 * Abs(out.predicted_rul * rate - d.current_health * 1000000) <= rate
        /\ out.confidence_level
             = Max(600, Min(950, 850 - 10 * Abs(vf - 10) - 10 * Abs(tf - 10)))
        /\ IF 100 * p > 99 * rate THEN fp[1] * 100 = 99 * fp[2]
           ELSE IF 100 * p < rate THEN fp[1] * 100 = fp[2]
           ELSE fp[1] * rate = p * fp[2]
        /\ (/\ d.current_health = 80 /\ d.vibration_level = 60
            /\ d.temperature_delta = 12 /\ d.motor_load_avg = 95)
           => /\ out.degradation_rate = 2730
              /\ out.predicted_rul = 29304
              /\ out.confidence_level = 770

\* The call of the example.
C10_Witness ==
  /\ Done("predict_rul")
  /\ inp.input_data.current_health = 80
  /\ inp.input_data.vibration_level = 60
  /\ inp.input_data.temperature_delta = 12
  /\ inp.input_data.motor_load_avg = 95
  /\ out.confidence_level = 770

\* The keys of the monitored parameters.
Monitored == {"weight", "thickness", "hardness", "feeder_speed", "turret_speed"}

\* The last `window` signals of the request: none for a window of 0 or less.
LastWindow ==
  LET n == Len(inp.signals)
  IN  IF inp.window_size <= 0 THEN <<>>
      ELSE SubSeq(inp.signals, Max(n - inp.window_size, 0) + 1, n)

\* Every monitored parameter has one value throughout the signals.
Flat(signals) ==
  \A key \in Monitored : \A i, j \in DOMAIN signals :
    signals[i][key] = signals[j][key]

\* C5: detect_drift(signals, window) returns an empty list whenever
\* len(signals) < window, and returns no detection for any parameter whenever
\* every monitored parameter (weight, thickness, hardness, feeder_speed,
\* turret_speed) is constant over the last `window` signals.
C5_NoDriftOnShortOrFlatSeries ==
  Done("detect_drift") =>
    /\ Len(inp.signals) < inp.window_size => out = <<>>
    /\ Flat(LastWindow) => out = <<>>

\* The base severity of a detection type: the type map, minor for a type the
\* map does not have.
BaseSeverityOf(type) ==
  CASE type \in {"ppe_violation", "surface_damage"} -> "moderate"
    [] type \in {"leak", "contamination", "safety_hazard"} -> "critical"
    [] OTHER -> "minor"

\* C8: analyze_detection severity: the base severity comes from the type map
\* (ppe_violation, surface_damage -> moderate; leak, contamination,
\* safety_hazard -> critical; unknown type -> minor); confidence < 0.50 gives
\* minor whatever the type; confidence > 0.85 turns a minor base into moderate
\* and a moderate base into critical, critical stays; for
\* 0.50 <= confidence <= 0.85 the severity is the base severity;
\* requires_immediate is true iff the severity is critical.
C8_DetectionSeverity ==
  Done("analyze_detection") =>
    LET base == BaseSeverityOf(inp.detection.type)
        confidence == inp.detection.confidence          \* hundredths
    IN  /\ confidence < 50 => out.severity = "minor"
        /\ confidence > 85 =>
             out.severity = CASE base = "minor" -> "moderate"
                              [] base = "moderate" -> "critical"
                              [] base = "critical" -> "critical"
        /\ (50 <= confidence /\ confidence <= 85) => out.severity = base
        /\ out.requires_immediate <=> out.severity = "critical"

\* A type the map does not know, seen with high confidence: escalated from
\* minor to moderate, not immediate.
C8_Witness ==
  /\ Done("analyze_detection")
  /\ inp.detection.type = "spill"
  /\ inp.detection.confidence > 85
  /\ out.severity = "moderate"
  /\ ~out.requires_immediate

\* C9: analyze_detection priority score: for every detection type and
\* confidence in [0, 1], priority_score = min(100, round((severity_weight +
\* type_weight) x (0.5 + 0.5 x confidence))) with severity weights minor 20,
\* moderate 50, critical 90 and type weights contamination 10, leak 10,
\* safety_hazard 8, ppe_violation 5, surface_damage 3 (no weight for another
\* type); round gives an integer nearest to the product.  The score is in
\* 0..100, and a leak with confidence 0.9 has severity critical and score 95.
C9_PriorityScore ==
  Done("analyze_detection") =>
    LET type == inp.detection.type
        severity_weight == CASE out.severity = "minor" -> 20
                             [] out.severity = "moderate" -> 50
                             [] out.severity = "critical" -> 90
        type_weight == CASE type \in {"contamination", "leak"} -> 10
                         [] type = "safety_hazard" -> 8
                         [] type = "ppe_violation" -> 5
                         [] type = "surface_damage" -> 3
                         [] OTHER -> 0
        \* the product times 200
        product == (severity_weight + type_weight) * (100 + inp.detection.confidence)
    IN  /\ \E r \in 0..200 : /\ 2 * Abs(200 * r - product) <= 200
                             /\ out.priority_score = Min(100, r)
        /\ out.priority_score \in 0..100
        /\ (type = "leak" /\ inp.detection.confidence = 90)
             => out.severity = "critical" /\ out.priority_score = 95

\* The leak of the example.
C9_Witness ==
  /\ Done("analyze_detection")
  /\ inp.detection.type = "leak"
  /\ inp.detection.confidence = 90
  /\ out.priority_score = 95

\* The order in which the checks of generate_recommendations run.
CheckOrder ==
  [p \in {"Feeder Speed", "Main Compression Force", "Turret Speed",
          "Pre-Compression Force"} |->
     CASE p = "Feeder Speed" -> 1
       [] p = "Main Compression Force" -> 2
       [] p = "Turret Speed" -> 3
       [] p = "Pre-Compression Force" -> 4]

\* The SOP limits in force for the request, by parameter name.
LimitsInForce ==
  LET l == IF inp.sop_limits = None THEN DEFAULT_SOP_LIMITS ELSE inp.sop_limits[1]
  IN  [p \in DOMAIN CheckOrder |->
         CASE p = "Feeder Speed" -> l.feeder_speed
           [] p = "Main Compression Force" -> l.main_compression_force
           [] p = "Turret Speed" -> l.turret_speed
           [] p = "Pre-Compression Force" -> l.pre_compression_force]

\* C11: generate_recommendations: for SOP limits with min <= max, the output
\* holds at most one recommendation per check and at most four in all, in the
\* order Feeder Speed, Main Compression Force, Turret Speed, Pre-Compression
\* Force; every recommended_value lies within [sop_min, sop_max] of its
\* parameter and differs from its current_value.
C11_RecommendationsWithinSop ==
  (/\ Done("generate_recommendations")
   /\ \A p \in DOMAIN LimitsInForce : LimitsInForce[p].min <= LimitsInForce[p].max)
  => /\ Len(out) <= 4
     /\ \A i \in DOMAIN out : out[i].parameter \in DOMAIN CheckOrder
     /\ \A i, j \in DOMAIN out :
          i < j => CheckOrder[out[i].parameter] < CheckOrder[out[j].parameter]
     /\ \A i \in DOMAIN out :
          /\ out[i].sop_min = LimitsInForce[out[i].parameter].min
          /\ out[i].sop_max = LimitsInForce[out[i].parameter].max
          /\ out[i].sop_min <= out[i].recommended_value
          /\ out[i].recommended_value <= out[i].sop_max
          /\ out[i].recommended_value # out[i].current_value

\* All four checks recommend a change, the feeder speed from above its
\* upper limit down to the limit.
C11_Witness ==
  /\ Done("generate_recommendations")
  /\ inp.sop_limits = None
  /\ Len(out) = 4
  /\ out[1].current_value > out[1].sop_max
  /\ out[1].adjustment > 0
  /\ out[1].recommended_value = out[1].sop_max

\* C12: predict_yield: for every batch profile, history and
\* active_recommendations >= 0, current_yield is within [85, 99],
\* corrected_yield is at most 99.5, confidence_level is
\* min(0.95, 0.80 + 0.01 x len(history) + 0.02 x active_recommendations) and so
\* within [0.80, 0.95], and risk_level is high iff current_yield < 93, medium
\* iff 93 <= current_yield < 95, and low otherwise.
C12_PredictYield ==
  (Done("predict_yield") /\ inp.input_data.active_recommendations >= 0) =>
    LET cy == out.current_yield            \* fractions of a percent
        co == out.corrected_yield
        n == Len(inp.input_data.historical_yields)
        ar == inp.input_data.active_recommendations
    IN  /\ 85 * cy[2] <= cy[1] /\ cy[1] <= 99 * cy[2]
        /\ 2 * co[1] <= 199 * co[2]
        /\ out.confidence_level = Min(95, 80 + n + 2 * ar)    \* hundredths
        /\ 80 <= out.confidence_level /\ out.confidence_level <= 95
        /\ out.risk_level = "high" <=> cy[1] < 93 * cy[2]
        /\ out.risk_level = "medium" <=> (93 * cy[2] <= cy[1] /\ cy[1] < 95 * cy[2])
        /\ out.risk_level = "low" <=> cy[1] >= 95 * cy[2]

\* A poor batch with a history: the yield is held at 85 and the risk is high.
C12_Witness ==
  /\ Done("predict_yield")
  /\ inp.input_data.active_recommendations >= 0
  /\ inp.input_data.historical_yields # <<>>
  /\ inp.input_data.batch_profile.in_spec_percentage < 850
  /\ out.current_yield = <<85, 1>>
  /\ out.risk_level = "high"

\* The name a monitored parameter has in a detection.
OutputName ==
  [key \in Monitored |->
     CASE key = "feeder_speed" -> "feederSpeed"
       [] key = "turret_speed" -> "turretSpeed"
       [] OTHER -> key]

\* The values of one parameter over the last `window` signals sum to zero,
\* so their mean is exactly zero.
MeanZero(key) ==
  /\ LastWindow # <<>>
  /\ Sum([i \in DOMAIN LastWindow |-> LastWindow[i][key]]) = 0

\* C13: detect_drift, degenerate regression: for a window in which a
\* monitored parameter has a zero regression denominator (a single sample) or
\* a mean of exactly zero, detect_drift emits no detection for that
\* parameter.
C13_NoDriftOnDegenerateRegression ==
  (Done("detect_drift") /\ inp.window_size >= 1) =>
    \A key \in Monitored :
      (Len(LastWindow) = 1 \/ MeanZero(key))
      => \A i \in DOMAIN out : out[i].parameter # OutputName[key]

\* The threshold of a source when the caller gave none (the default) or gave
\* a non-zero one; `given` is the Optional of the request.
ThresholdOf(given, default) == IF given = None THEN default ELSE given[1]

\* Every anomaly of sample i from the source has the severity.
SeverityAt(i, source, severity) ==
  \A k \in AnomaliesAt(i, source) : out[k].severity = severity

\* The vibration tiers, which the original statement and the amended one of
\* C14 share: above 1.5 x threshold high, above 1.2 x threshold medium, else
\* low.  Vibration is in tenths of mm/s.
VibrationTiersAsStated ==
  \A i \in DOMAIN inp.sensor_data :
    LET v == inp.sensor_data[i].vibration
        t == ThresholdOf(inp.vibration_threshold, 50)
    IN  SeverityAt(i, "Vibration Sensor",
                   IF 10 * v > 15 * t THEN "high"
                   ELSE IF 10 * v > 12 * t THEN "medium" ELSE "low")

\* The thresholds of the request are unambiguous: none given, or not zero.
PlainThresholds ==
  /\ inp.vibration_threshold # Some(0)
  /\ inp.temperature_threshold # Some(0)

\* C14 as stated: detect_anomalies severity tiers: a flagged vibration reading
\* is high above 1.5 x threshold, medium above 1.2 x threshold, else low; a
\* flagged temperature reading is high when its offset above the threshold is
\* >= 15, medium when the offset is >= 5 and below 15, else low.
C14_SeverityTiersAsStated ==
  (Done("detect_anomalies") /\ PlainThresholds) =>
    /\ VibrationTiersAsStated
    /\ \A i \in DOMAIN inp.sensor_data :
         LET offset == inp.sensor_data[i].temperature
                         - ThresholdOf(inp.temperature_threshold, 65)
         IN  SeverityAt(i, "Temperature Sensor",
                        IF offset >= 15 THEN "high"
                        ELSE IF offset >= 5 THEN "medium" ELSE "low")

\* C14 amended: the vibration tiers as stated; a flagged temperature reading
\* is high when its offset above the threshold is more than 15, medium when
\* the offset is more than 5 and at most 15, else low (an offset of exactly
\* 15 is medium, of exactly 5 low).
C14_SeverityTiers ==
  (Done("detect_anomalies") /\ PlainThresholds) =>
    /\ VibrationTiersAsStated
    /\ \A i \in DOMAIN inp.sensor_data :
         LET offset == inp.sensor_data[i].temperature
                         - ThresholdOf(inp.temperature_threshold, 65)
         IN  SeverityAt(i, "Temperature Sensor",
                        IF offset > 15 THEN "high"
                        ELSE IF offset > 5 THEN "medium" ELSE "low")

\* A temperature exactly 15 above the default threshold, flagged medium.
C14_Witness ==
  /\ Done("detect_anomalies")
  /\ inp.temperature_threshold = None
  /\ \E i \in DOMAIN inp.sensor_data :
       /\ inp.sensor_data[i].temperature = 80
       /\ AnomaliesAt(i, "Temperature Sensor") # {}
       /\ SeverityAt(i, "Temperature Sensor", "medium")

\* C15: detect_anomalies threshold override: for each of vibration,
\* temperature and motor load, when the caller supplies a threshold (any
\* number, 0 included) a sample is flagged for that source iff its reading is
\* strictly greater than the supplied value; the defaults 5.0, 65 and 90 are
\* used only when no value is supplied.
C15_SuppliedThresholdIsUsed ==
  Done("detect_anomalies") =>
    \A i \in DOMAIN inp.sensor_data :
      LET data == inp.sensor_data[i]
      IN  /\ AnomaliesAt(i, "Vibration Sensor") # {}
               <=> data.vibration > ThresholdOf(inp.vibration_threshold, 50)
          /\ AnomaliesAt(i, "Temperature Sensor") # {}
               <=> data.temperature > ThresholdOf(inp.temperature_threshold, 65)
          /\ AnomaliesAt(i, "Motor Load Sensor") # {}
               <=> data.motor_load > ThresholdOf(inp.motor_load_threshold, 90)

\* The batches of the request that end after now, by position.
FutureBatches ==
  {i \in DOMAIN inp.schedule : inp.schedule[i].end_time > inp.now}

\* Start-time order; batches starting together keep the order of the request.
StartsBefore(i, j) ==
  \/ inp.schedule[i].start_time < inp.schedule[j].start_time
  \/ inp.schedule[i].start_time = inp.schedule[j].start_time /\ i < j

\* j is the future batch that follows the future batch i in start-time order.
FollowedBy(i, j) ==
  /\ j \in FutureBatches
  /\ StartsBefore(i, j)
  /\ ~\E k \in FutureBatches : StartsBefore(i, k) /\ StartsBefore(k, j)

\* The future batches whose gap to the next future batch is long enough.
SufficientGaps ==
  {i \in FutureBatches :
     \E j \in FutureBatches :
       /\ FollowedBy(i, j)
       /\ inp.schedule[j].start_time - inp.schedule[i].end_time >= inp.duration_hours}

\* C16: find_idle_window search order: if no batch ends after now, or the
\* earliest-starting future batch starts at least `duration` after now, the
\* window is [now, now + duration); otherwise it starts at the end of the
\* earliest (in start-time order) future batch whose gap to the next future
\* batch is >= duration; if no gap suffices it starts at the end of the last
\* future batch.  Batches ending at or before now have no part in the result.
C16_IdleWindowSearchOrder ==
  Done("find_idle_window") =>
    LET first == CHOOSE i \in FutureBatches :
                   \A j \in FutureBatches \ {i} : StartsBefore(i, j)
        last == CHOOSE i \in FutureBatches :
                  \A j \in FutureBatches \ {i} : StartsBefore(j, i)
        gap == CHOOSE i \in SufficientGaps :
                 \A j \in SufficientGaps \ {i} : StartsBefore(i, j)
    IN  /\ out.end = out.start + inp.duration_hours
        /\ out.start =
             IF FutureBatches = {} THEN inp.now
             ELSE IF inp.schedule[first].start_time - inp.now >= inp.duration_hours
                  THEN inp.now
             ELSE IF SufficientGaps # {} THEN inp.schedule[gap].end_time
             ELSE inp.schedule[last].end_time

\* Future batches given out of start-time order with two gaps that are long
\* enough: the window is in the earlier gap.
C16_Witness ==
  /\ Done("find_idle_window")
  /\ Cardinality(SufficientGaps) = 2
  /\ \E i \in SufficientGaps :
       /\ out.start = inp.schedule[i].end_time
       /\ \E j \in SufficientGaps : StartsBefore(i, j)
  /\ \E i, j \in FutureBatches : i < j /\ StartsBefore(j, i)

\* 1 - 0.25 b - 0.10 w - 0.15 v clamped to [0, 1], in hundredths.
StatedConfidence(b, w, v) == Max(0, Min(100, 100 - 25 * b - 10 * w - 15 * v))

\* The conditions a request can hold.
OneCondition == [name : ConditionNames, status : {"ready", "warning", "blocked"}]

\* C17: optimize_schedule: with b blocked conditions, w warning conditions and
\* v constraint violations, confidence = clamp(0, 1, round(1 - 0.25 b - 0.10 w
\* - 0.15 v, 2)); it lies in [0, 1] and never increases when b, w or v
\* increases; is_optimal iff b = 0 and v = 0.
C17_ScheduleConfidence ==
  Done("optimize_schedule") =>
    LET b == CountStatus("blocked")
        w == CountStatus("warning")
        v == Len(out.constraint_violations)
    IN  /\ Len(out.blockers) = b
        /\ Len(out.warnings) = w
        /\ out.confidence = StatedConfidence(b, w, v)
        /\ out.confidence \in 0..100
        /\ StatedConfidence(b + 1, w, v) <= out.confidence
        /\ StatedConfidence(b, w + 1, v) <= out.confidence
        /\ StatedConfidence(b, w, v + 1) <= out.confidence
        /\ \A c \in OneCondition :
             Confidence(Append(inp.conditions, c), inp.constraints)
               <= out.confidence
        /\ out.is_optimal <=> (b = 0 /\ v = 0)

\* Enough blocked conditions and violations for 1 - 0.25 b - 0.10 w - 0.15 v
\* to be negative: the confidence is 0 and the schedule is not optimal.
C17_Witness ==
  /\ Done("optimize_schedule")
  /\ 25 * CountStatus("blocked") + 10 * CountStatus("warning")
       + 15 * Len(out.constraint_violations) > 100
  /\ CountStatus("warning") > 0
  /\ out.confidence = 0
  /\ ~out.is_optimal

\* The four metrics in the stated order.
MetricKeys == <<"ppe_compliance", "surface_condition", "environmental_norm", "safety_score">>

MetricLabels == <<"PPE Compliance", "Surface Condition", "Environmental", "Safety Score">>

\* The target of metric k, in half percents: the caller's baseline, or 98, 97,
\* 99 and 96 when none is supplied.
TargetInForce(k) ==
  IF inp.baseline = None THEN <<196, 194, 198, 192>>[k] ELSE inp.baseline[1][MetricKeys[k]]

\* The metrics below their target, in the stated order.
MetricsBelowTarget ==
  SelectSeq(<<1, 2, 3, 4>>, LAMBDA k : TargetInForce(k) - inp.current[MetricKeys[k]] > 0)

\* C19: detect_baseline_deviation: for the four metrics in the order PPE
\* Compliance, Surface Condition, Environmental, Safety Score, a record is
\* emitted iff target - current > 0; severity is high iff deviation >= 10,
\* medium iff 5 <= deviation < 10, else low; trend is declining iff
\* deviation > 2.0, else stable; without a baseline the targets are 98, 97,
\* 99 and 96.  (Half percents: 10 is 20, 5 is 10, 2.0 is 4.)
C19_BaselineDeviations ==
  Done("detect_baseline_deviation") =>
    /\ Len(out) = Len(MetricsBelowTarget)
    /\ \A i \in DOMAIN out :
         LET k == MetricsBelowTarget[i]
             deviation == TargetInForce(k) - inp.current[MetricKeys[k]]
         IN  /\ out[i].metric = MetricLabels[k]
             /\ out[i].baseline_value = TargetInForce(k)
             /\ out[i].current_value = inp.current[MetricKeys[k]]
             /\ out[i].deviation = deviation
             /\ out[i].severity = "high" <=> deviation >= 20
             /\ out[i].severity = "medium" <=> (10 <= deviation /\ deviation < 20)
             /\ out[i].severity = "low" <=> deviation < 10
             /\ out[i].trend = "declining" <=> deviation > 4
             /\ out[i].trend = "stable" <=> deviation <= 4

\* No baseline supplied; PPE compliance exactly 10 points below 98 (high),
\* surface condition at its target (no record), environmental exactly 2
\* points below 99 (low, stable), safety score exactly 5 below 96 (medium).
C19_Witness ==
  /\ Done("detect_baseline_deviation")
  /\ inp.baseline = None
  /\ inp.current.ppe_compliance = 176
  /\ inp.current.surface_condition = 194
  /\ inp.current.environmental_norm = 194
  /\ inp.current.safety_score = 182
  /\ Len(out) = 3
  /\ out[1].severity = "high"
  /\ out[2].metric = "Environmental" /\ out[2].trend = "stable"
  /\ out[3].severity = "medium" /\ out[3].trend = "declining"

\* critical above moderate above every other severity.
RoutingRank(severity) ==
  IF severity = "critical" THEN 2 ELSE IF severity = "moderate" THEN 1 ELSE 0

\* s is t or t cut short.
IsPrefix(s, t) == Len(s) <= Len(t) /\ SubSeq(t, 1, Len(s)) = s

\* C20: route_alert: critical gives the methods [push, sms, alarm], 3 escalation
\* tiers, a deadline of now + 5 minutes and auto_escalate true; moderate gives
\* [push, email], 2 tiers, now + 30 minutes and auto_escalate false; any other
\* severity gives [push], 1 tier, now + 120 minutes and auto_escalate false.
\* The escalation path of a lower severity is a prefix of that of a higher one.
C20_RouteAlert ==
  Done("route_alert") =>
    LET severity == inp.detection.severity
    IN  /\ severity = "critical" =>
             /\ out.notification_methods = <<"push", "sms", "alarm">>
             /\ Len(out.escalation_path) = 3
             /\ out.response_deadline = inp.now + 5
             /\ out.auto_escalate
        /\ severity = "moderate" =>
             /\ out.notification_methods = <<"push", "email">>
             /\ Len(out.escalation_path) = 2
             /\ out.response_deadline = inp.now + 30
             /\ ~out.auto_escalate
        /\ severity \notin {"critical", "moderate"} =>
             /\ out.notification_methods = <<"push">>
             /\ Len(out.escalation_path) = 1
             /\ out.response_deadline = inp.now + 120
             /\ ~out.auto_escalate
        /\ \A lower \in Severities :
             RoutingRank(lower) < RoutingRank(severity) =>
               IsPrefix(route_alert([inp.detection EXCEPT !.severity = lower],
                                    inp.now).escalation_path,
                        out.escalation_path)

\* A critical detection routed after time zero: three tiers, of which the
\* moderate path is the first two, and five minutes to respond.
C20_Witness ==
  /\ Done("route_alert")
  /\ inp.detection.severity = "critical"
  /\ inp.now > 0
  /\ out.escalation_path = <<"supervisor", "production_manager", "plant_manager">>
  /\ out.response_deadline = inp.now + 5
  /\ out.auto_escalate

\* The number of detections of the request with the given severity.
DetectionCount(severity) ==
  Cardinality({i \in DOMAIN inp.input_data.detections :
                 inp.input_data.detections[i].severity = severity})

\* Twice 100 - (3.0 c + 1.5 m + 0.5 n) / t * 10 clamped to [0, 100], times t.
StatedRftTimes2T(c, m, n, t) ==
  Max(0, Min(200 * t, 200 * t - 10 * (6 * c + 3 * m + n)))

\* The sum of the detections' confidences, in hundredths.
ConfidenceTotal ==
  Sum([i \in DOMAIN inp.input_data.detections |->
         inp.input_data.detections[i].confidence])

\* C18: analyze_vision_metrics: with c, m, n the counts of critical, moderate
\* and minor detections, rft_percentage = clamp(0, 100, 100 - (3.0 c + 1.5 m +
\* 0.5 n) / max(1, total_inspections) x 10), within [0, 100] also when
\* total_inspections = 0; risk_level is high iff c > 0 or rft < 90, otherwise
\* medium iff m > 2 or rft < 95, otherwise low; confidence_score is the mean
\* detection confidence rounded to 2 places, and 1.0 without detections.
C18_VisionMetrics ==
  Done("analyze_vision_metrics") =>
    LET c == DetectionCount("critical")
        m == DetectionCount("moderate")
        n == DetectionCount("minor")
        t == Max(1, inp.input_data.total_inspections)
        k == Len(inp.input_data.detections)
        num == out.rft_percentage[1]
        den == out.rft_percentage[2]
        high == c > 0 \/ num < 90 * den
        medium == ~high /\ (m > 2 \/ num < 95 * den)
    IN  /\ den > 0
        /\ num * 2 * t = StatedRftTimes2T(c, m, n, t) * den
        /\ 0 <= num /\ num <= 100 * den
        /\ out.risk_level = "high" <=> high
        /\ out.risk_level = "medium" <=> medium
        /\ out.risk_level = "low" <=> (~high /\ ~medium)
        /\ k = 0 => out.confidence_score = 100
        /\ k > 0 =>
             /\ 2 * (k * out.confidence_score - ConfidenceTotal) <= k
             /\ 2 * (ConfidenceTotal - k * out.confidence_score) <= k

\* No inspections and four critical detections: 100 - 12 / 1 x 10 is below
\* zero, rft_percentage is 0 and the risk is high.
C18_Witness ==
  /\ Done("analyze_vision_metrics")
  /\ inp.input_data.total_inspections = 0
  /\ DetectionCount("critical") = 4
  /\ out.rft_percentage[1] = 0
  /\ out.risk_level = "high"
  /\ out.confidence_score = 93

\* lo <= q <= hi for the fraction q = <<num, den>>, den > 0.
FractionWithin(q, lo, hi) == q[2] > 0 /\ lo * q[2] <= q[1] /\ q[1] <= hi * q[2]

\* C21: degenerate inputs never fail the caller: detect_drift on an empty or
\* constant signal list, analyze_vision_metrics with no detections and/or
\* total_inspections = 0, optimize_schedule and validate_schedule with no
\* groups or only empty groups, find_idle_window and analyze_component with an
\* empty schedule, detect_anomalies with an empty sample list and
\* predict_yield with an empty history each return a well-formed result (no
\* drift, confidence 1.0, efficiency gain 0, window starting now, empty list):
\* every such call returns, and what it returns is as stated.
C21_DegenerateInputs ==
  /\ pc = "call" => ENABLED NextDegenerate
  /\ Done("detect_drift") => out = <<>>
  /\ Done("analyze_vision_metrics") =>
       /\ FractionWithin(out.rft_percentage, 0, 100)
       /\ out.risk_level \in {"low", "medium", "high"}
       /\ out.recommendations # <<>>
       /\ out.confidence_score \in 0..100
       /\ out.total_detections = Len(inp.input_data.detections)
       /\ inp.input_data.detections = <<>> =>
            /\ out.confidence_score = 100
            /\ out.rft_percentage[1] = 100 * out.rft_percentage[2]
            /\ out.risk_level = "low"
  /\ Done("optimize_schedule") =>
       /\ out.efficiency_gain = 0
       /\ out.total_batches = 0
       /\ out.baseline_cleaning_time = 0
       /\ out.confidence \in 0..100
       /\ out.is_optimal \in BOOLEAN
  /\ Done("validate_schedule") =>
       /\ out.is_valid \in BOOLEAN
       /\ out.can_proceed \in BOOLEAN
       /\ out.error_count + out.warning_count <= Len(out.issues)
       /\ out.is_valid <=> out.error_count = 0
  /\ Done("find_idle_window") =>
       out = [start |-> inp.now, end |-> inp.now + inp.duration_hours]
  /\ Done("analyze_component") =>
       /\ out.suggested_time = inp.now
       /\ out.machine_idle_window =
            [start |-> inp.now, end |-> inp.now + out.estimated_duration]
       /\ out.priority \in {"low", "medium", "high", "critical"}
  /\ Done("detect_anomalies") => out = <<>>
  /\ Done("predict_yield") =>
       /\ FractionWithin(out.current_yield, 85, 99)
       /\ FractionWithin(out.corrected_yield, 85, 100)
       /\ out.risk_level \in {"low", "medium", "high"}
       /\ out.confidence_level \in 0..95

\* No detections and no inspections: the analysis returns a confidence of 1.0
\* and an RFT of 100 %.
C21_Witness ==
  /\ Done("analyze_vision_metrics")
  /\ inp.input_data.detections = <<>>
  /\ inp.input_data.total_inspections = 0
  /\ out.confidence_score = 100
  /\ out.rft_percentage[1] = 100 * out.rft_percentage[2]

\* Batch k of group g has another batch of g with its drug and, when density
\* is asked for, its density.
HasPartner(g, k, density) ==
  \E l \in DOMAIN g.batches :
    /\ l # k
    /\ g.batches[l].drug = g.batches[k].drug
    /\ density => g.batches[l].density = g.batches[k].density

\* C22: group_batches compatibility: in every emitted group of type
\* same-drug-same-density (no cleaning) each batch shares both drug and
\* density with at least one other batch of that group, and in every emitted
\* group of type same-drug-diff-density each batch shares its drug with at
\* least one other batch of that group.
C22_GroupsAreCompatible ==
  Done("group_batches") =>
    \A n \in DOMAIN out :
      /\ out[n].type = "same-drug-same-density" =>
           /\ out[n].cleaning_required = "none"
           /\ out[n].cleaning_time_minutes = 0
           /\ \A k \in DOMAIN out[n].batches : HasPartner(out[n], k, TRUE)
      /\ out[n].type = "same-drug-diff-density" =>
           \A k \in DOMAIN out[n].batches : HasPartner(out[n], k, FALSE)

\* The group's batches list holds every batch of the request exactly once.
HoldsEveryBatchOnce(g) ==
  /\ Len(g.batches) = Len(inp.batches)
  /\ \A i \in DOMAIN inp.batches :
       Cardinality({k \in DOMAIN g.batches : g.batches[k] = inp.batches[i]}) = 1

LimitsOrdered ==
  \A p \in DOMAIN LimitsInForce : LimitsInForce[p].min <= LimitsInForce[p].max

\* C24: generate_recommendations with validate_recommendation: for SOP limits
\* with min <= max, validate_recommendation under the same limits is true of
\* every recommendation generate_recommendations returns;
\* validate_recommendation is true exactly when the recommended value is
\* within [min, max] of the named parameter, and true for every parameter
\* name it has no limits for.
C24_RecommendationsValidate ==
  /\ (Done("generate_recommendations") /\ LimitsOrdered) =>
       \A i \in DOMAIN out : validate_recommendation(out[i], inp.sop_limits)
  /\ Done("validate_recommendation") =>
       LET rec == inp.recommendation
       IN  IF rec.parameter \in DOMAIN LimitsInForce
           THEN out <=> /\ LimitsInForce[rec.parameter].min <= rec.recommended_value
                        /\ rec.recommended_value <= LimitsInForce[rec.parameter].max
           ELSE out = TRUE

\* Under limits with min = max, recommendations that move values onto the
\* single permitted value; each validates.
C24_Witness ==
  /\ Done("generate_recommendations")
  /\ inp.sop_limits = Some(PinnedSopLimits)
  /\ Len(out) >= 2
  /\ \A i \in DOMAIN out :
       /\ out[i].recommended_value = out[i].sop_min
       /\ validate_recommendation(out[i], inp.sop_limits)

\* C25: generate_recommendations: in every recommendation, also when the
\* current value lies outside the SOP range, recommended_value less
\* current_value has the sign of the stated adjustment and a magnitude of at
\* most that step, so the reasoning matches the direction of the change.
\* Stated for limits with min <= max.
C25_AdjustmentConsistent ==
  (Done("generate_recommendations") /\ LimitsOrdered) =>
    \A i \in DOMAIN out :
      LET change == out[i].recommended_value - out[i].current_value
      IN  /\ (change > 0) <=> (out[i].adjustment > 0)
          /\ Abs(change) <= Abs(out[i].adjustment)

\* One of the four recommendation rules of analyze_vision_metrics applies to
\* the request and its result.
SomeRuleTriggers ==
  LET detections == inp.input_data.detections
  IN  \/ Cardinality({i \in DOMAIN detections : detections[i].type = "ppe_violation"}) > 2
      \/ \E i \in DOMAIN detections : detections[i].type \in {"surface_damage", "leak"}
      \/ \E i \in DOMAIN out.baseline_deviations :
           out.baseline_deviations[i].severity = "high"
      \/ out.rft_percentage[1] < 95 * out.rft_percentage[2]

\* C26: analyze_vision_metrics: recommendations is never empty; the fallback
\* 'Maintain current practices' is returned only when none of the four rules
\* triggers, and then only together with risk_level 'low', never with 'high'
\* or 'medium'.
C26_FallbackOnlyAtLowRisk ==
  Done("analyze_vision_metrics") =>
    /\ out.recommendations # <<>>
    /\ (\E i \in DOMAIN out.recommendations :
          out.recommendations[i] = "Maintain current practices")
       => /\ ~SomeRuleTriggers
          /\ out.risk_level = "low"

\* C27: predict_yield: for a reject rate >= 0, every history and
\* active_recommendations >= 0, the corrections never make the prediction
\* worse: corrected_yield >= current_yield, so potential_improvement >= 0, and
\* corrected_reject_rate <= current_reject_rate.
C27_CorrectionsNeverWorse ==
  (/\ Done("predict_yield")
   /\ inp.input_data.batch_profile.reject_rate >= 0
   /\ inp.input_data.active_recommendations >= 0)
  => /\ out.corrected_yield[1] * out.current_yield[2]
          >= out.current_yield[1] * out.corrected_yield[2]
     /\ out.potential_improvement[1] >= 0
     /\ out.corrected_reject_rate <= out.current_reject_rate

\* The batches of a queue are all of one drug and one density.
AllIdentical(batches) ==
  \A i, j \in DOMAIN batches :
    batches[i].drug = batches[j].drug /\ batches[i].density = batches[j].density

\* No two batches of a queue are of one drug.
AllDifferInDrug(batches) ==
  \A i, j \in DOMAIN batches : i # j => batches[i].drug # batches[j].drug

\* efficiency_gain of optimize_schedule on the groups group_batches returns
\* for a queue.
PipelineGain(batches) ==
  optimize_schedule(group_batches(batches), <<>>, NoConstraints).efficiency_gain

\* C28: group_batches then optimize_schedule: for a batch list with pairwise
\* distinct ids, optimize_schedule on the groups group_batches returned has
\* total_batches equal to the number of input batches, and its
\* efficiency_gain for a list of batches of one drug and density differs from
\* that for a list, as long, of batches that all differ in drug (lists of two
\* batches and more).
C28_PipelineCountsEachBatchOnce ==
  Done("group_batches") =>
    /\ \A conditions \in FewConditionLists :
         optimize_schedule(out, conditions, NoConstraints).total_batches
           = Len(inp.batches)
    /\ (AllIdentical(inp.batches) /\ Len(inp.batches) >= 2) =>
         \A other \in BatchQueues :
           (Len(other) = Len(inp.batches) /\ AllDifferInDrug(other)) =>
             PipelineGain(other) # PipelineGain(inp.batches)

\* low < medium < high < critical
PriorityRank == [low |-> 1, medium |-> 2, high |-> 3, critical |-> 4]

\* The priority analyze_component returns for the component of the request at
\* another health.
PriorityAtHealth(health) ==
  analyze_component([inp.component EXCEPT !.health = health], inp.schedule,
                    inp.now).priority

\* C29: analyze_component: for fixed rul and trend the priority is monotonic
\* in health: a component of no more health has at least the priority, in the
\* order low < medium < high < critical; estimated_duration is 4 iff
\* maintenance_type is spare_replacement and 2 otherwise; machine_idle_window
\* has exactly that length and suggested_time is its start, also when no
\* maintenance is required.
C29_PriorityMonotonicInHealth ==
  Done("analyze_component") =>
    /\ \A lower \in 0..inp.component.health :
         PriorityRank[PriorityAtHealth(lower)] >= PriorityRank[out.priority]
    /\ out.estimated_duration
         = IF out.maintenance_type = "spare_replacement" THEN 4 ELSE 2
    /\ out.machine_idle_window.end - out.machine_idle_window.start
         = out.estimated_duration
    /\ out.suggested_time = out.machine_idle_window.start

\* A component that needs no maintenance: the two-hour window is found after
\* a scheduled batch all the same, and every priority occurs at a lower
\* health.
C29_Witness ==
  /\ Done("analyze_component")
  /\ ~out.requires_maintenance
  /\ out.priority = "low"
  /\ inp.schedule # <<>>
  /\ out.suggested_time > inp.now
  /\ out.machine_idle_window.end = out.suggested_time + 2
  /\ {PriorityAtHealth(lower) : lower \in 0..inp.component.health}
       = {"low", "medium", "high", "critical"}

\* minor < moderate < critical
DetectionSeverityRank == [minor |-> 1, moderate |-> 2, critical |-> 3]

\* The results analyze_detection can return for the detection of the request
\* at another confidence.
ResultsAtConfidence(confidence) ==
  analyze_detection([inp.detection EXCEPT !.confidence = confidence], inp.now)

\* With a higher confidence neither the severity nor the priority score of
\* the request's detection is lower, whichever way a score on a tie rounds.
MonotonicInConfidence ==
  \A higher \in (inp.detection.confidence + 1)..100 :
    \A r \in ResultsAtConfidence(higher) :
      /\ DetectionSeverityRank[out.severity] <= DetectionSeverityRank[r.severity]
      /\ out.priority_score <= r.priority_score

\* The five detection types of the severity map.
KnownType == inp.detection.type \in DOMAIN DEFAULT_SEVERITY_MAP

\* C30 as stated: analyze_detection is monotonic in confidence: for a fixed
\* type and confidences c1 <= c2 the severity and the priority score at c1 are
\* at most those at c2; every known type with confidence > 0.85 is critical,
\* so moderate occurs only for ppe_violation and surface_damage with
\* confidence in [0.50, 0.85].
C30_MonotonicInConfidenceAsStated ==
  Done("analyze_detection") =>
    /\ MonotonicInConfidence
    /\ (KnownType /\ inp.detection.confidence > 85) => out.severity = "critical"
    /\ out.severity = "moderate" =>
         /\ inp.detection.type \in {"ppe_violation", "surface_damage"}
         /\ 50 <= inp.detection.confidence /\ inp.detection.confidence <= 85

\* C30: analyze_detection is monotonic in confidence: for a fixed type and
\* confidences c1 <= c2 the severity and the priority score at c1 are at most
\* those at c2; every known type with confidence > 0.85 is critical; moderate
\* occurs for ppe_violation and surface_damage with confidence in
\* [0.50, 0.85] and for a type the severity map does not know with
\* confidence > 0.85, and for nothing else.
C30_MonotonicInConfidence ==
  Done("analyze_detection") =>
    /\ MonotonicInConfidence
    /\ (KnownType /\ inp.detection.confidence > 85) => out.severity = "critical"
    /\ out.severity = "moderate" <=>
         \/ /\ inp.detection.type \in {"ppe_violation", "surface_damage"}
            /\ 50 <= inp.detection.confidence /\ inp.detection.confidence <= 85
         \/ ~KnownType /\ inp.detection.confidence > 85

\* A PPE violation at confidence 0.85, moderate; a hundredth more and it is
\* critical with a higher score.
C30_Witness ==
  /\ Done("analyze_detection")
  /\ inp.detection.type = "ppe_violation"
  /\ inp.detection.confidence = 85
  /\ out.severity = "moderate"
  /\ \A r \in ResultsAtConfidence(86) :
       r.severity = "critical" /\ r.priority_score > out.priority_score

====
